---- MODULE Spec2Model ----
(***************************************************************************)
(* Webhook server, event processor, project manager and agent executors   *)
(* of gitlab-claude-webhook, as a state machine.  One EventProcessor      *)
(* instance serves every request (webhookServer.ts:96); its fields        *)
(* currentCommentId and progressMessages are therefore shared by all the  *)
(* runs that are in flight.  A step of the machine is the code that runs  *)
(* between two awaits of one run.                                         *)
(***************************************************************************)
EXTENDS Integers, Sequences, FiniteSets, TLC

(* ---------------------------------------------------------------------- *)
(* Bounds of the model                                                    *)
(* ---------------------------------------------------------------------- *)

\* number of webhook requests the server receives (specification Spec)
NumRuns == 1

\* number of requests that are in flight together (specification SpecShared)
NumShared == 2

\* number of throttled progress updates one agent run streams
MaxProgress == 1

\* number of files one agent run changes
MaxChanges == 1

\* length of the texts that are enumerated token by token
MaxTextLen == 4

(* ---------------------------------------------------------------------- *)
(* Signature verification (utils/webhook.ts, the version the tests pin)   *)
(* ---------------------------------------------------------------------- *)

\* A header is a sequence of tokens; the literal prefix 'sha256=' is one
\* token, every other token stands for one character.
Sha256Prefix == "sha256="

\* config.webhook.secret
Secret == <<"s", "k">>

\* the configured secret, and the empty string of a server whose
\* WEBHOOK_SECRET is not set
Secrets == {Secret, <<>>}

Bodies == {"bodyA", "bodyB"}

\* crypto.createHmac('sha256', secret).update(body).digest('hex'): an
\* injective map of the modelled keys and bodies to lower-case hex strings
\* of one length.
HmacHex(secret, body) ==
  IF secret = Secret
    THEN (IF body = "bodyA" THEN <<"a", "1">> ELSE <<"b", "2">>)
    ELSE (IF body = "bodyA" THEN <<"1", "a">> ELSE <<"2", "b">>)

Headers ==
  { <<>>,                              \* header absent or empty
    Secret,                            \* the secret token verbatim
    <<"s", "x">>,                      \* some other token
    <<Sha256Prefix, "a", "1">>,        \* HMAC of bodyA under the secret
    <<Sha256Prefix, "b", "2">>,        \* HMAC of bodyB under the secret
    <<Sha256Prefix, "A", "1">>,        \* HMAC of bodyA in upper-case digits
    <<Sha256Prefix, "1", "a">>,        \* HMAC of bodyA under the empty key
    <<Sha256Prefix, "a", "z">>,        \* same length, not hexadecimal
    <<Sha256Prefix, "a">>,             \* hex of another length: shorter
    <<Sha256Prefix, "a", "1", "b">> }  \* and longer

startsWithSha256(signature) ==
  Len(signature) > 0 /\ signature[1] = Sha256Prefix

\* value of a hexadecimal digit in either letter case, -1 for another character
HexValue(c) ==
  IF c \in {"a", "A"} THEN 10
  ELSE IF c \in {"b", "B"} THEN 11
  ELSE IF c = "1" THEN 1
  ELSE IF c = "2" THEN 2
  ELSE -1

\* Buffer.from(hex, 'hex'): decodes digits by value and stops at the first
\* character that is not a hexadecimal digit
RECURSIVE BufferFromHex(_)
BufferFromHex(hex) ==
  IF Len(hex) = 0 \/ HexValue(hex[1]) = -1 THEN <<>>
  ELSE <<HexValue(hex[1])>> \o BufferFromHex(Tail(hex))

\* a comparison that looks at the lengths of the buffers only
timingSafeEqual_LengthOnly(a, b) ==
  IF Len(a) # Len(b) THEN "throws" ELSE "equal"

\* crypto.timingSafeEqual: throws on buffers of different byte length
timingSafeEqual(a, b) ==
  IF Len(a) # Len(b) THEN "throws"
  ELSE IF a = b THEN "equal" ELSE "differ"

\* the length check of verifyGitLabSignature left out, as in the first
\* version of the function
lengthsDiffer_Unchecked(expectedSignature, providedSignature) == FALSE

\* expectedSignature.length !== providedSignature.length
lengthsDiffer(expectedSignature, providedSignature) ==
  Len(expectedSignature) # Len(providedSignature)

\* verifyGitLabSignature with config.webhook.secret = secret: its answer,
\* and whether it called crypto.timingSafeEqual on the way
verifyTrace(secret, body, signature) ==
  IF Len(signature) = 0 THEN [valid |-> FALSE, compared |-> FALSE]
  ELSE IF Len(secret) = 0 THEN [valid |-> FALSE, compared |-> FALSE]
  ELSE IF signature = secret THEN [valid |-> TRUE, compared |-> FALSE]
  ELSE IF startsWithSha256(signature)
    THEN LET expectedSignature == HmacHex(secret, body)
             providedSignature == Tail(signature)
         IN  IF lengthsDiffer(expectedSignature, providedSignature)
               THEN [valid |-> FALSE, compared |-> FALSE]
               ELSE [valid    |-> timingSafeEqual(BufferFromHex(expectedSignature),
                                                  BufferFromHex(providedSignature)) = "equal",
                     compared |-> TRUE]
  ELSE [valid |-> FALSE, compared |-> FALSE]

verifyWithSecret(secret, body, signature) == verifyTrace(secret, body, signature).valid

verifyGitLabSignature(body, signature) == verifyWithSecret(Secret, body, signature)

(* ---------------------------------------------------------------------- *)
(* Instruction extraction                                                 *)
(* ---------------------------------------------------------------------- *)

\* Free text is a sequence of tokens that stand for adjacent pieces of the
\* string: a provider mention (any letter case), another @word, a space, a
\* line break, a word, a punctuation mark, or a bracketed parameter block.
ClaudeMentions == {"@claude", "@Claude"}
CodexMentions == {"@codex", "@Codex"}
Mentions == ClaudeMentions \cup CodexMentions
AtWords == Mentions \cup {"@bob"}
Ws == "ws"
Nl == "nl"
Comma == ","

\* \s
IsSpace(t) == t \in {Ws, Nl}

\* what stands between the brackets of a block, already cut at ',' and
\* then at '=' (a value is a sequence of characters)
BlockParts ==
  [ b \in { "[model=m1,timeout=20]", "[timeout=20min]",
            "[Model=m1,foo=bar,timeout=abc]", "[model=,=m1,model]" } |->
      CASE b = "[model=m1,timeout=20]" ->
             << <<"model", <<"m", "1">> >>, <<"timeout", <<"2", "0">> >> >>
        [] b = "[timeout=20min]" ->
             << <<"timeout", <<"2", "0", "m", "i", "n">> >> >>
        [] b = "[Model=m1,foo=bar,timeout=abc]" ->
             << <<"Model", <<"m", "1">> >>, <<"foo", <<"b", "a", "r">> >>,
                <<"timeout", <<"a", "b", "c">> >> >>
        [] OTHER ->
             << <<"model", <<>> >>, <<"", <<"m", "1">> >>, <<"model">> >> ]

Blocks == DOMAIN BlockParts

\* a description or note that mentions the agent and gives it a command
MentionWithCommand == <<"word", Ws, "@Claude", Ws, "fix", Ws, "@bob", Ws, "word">>

\* a description that gives the command to the other agent
CodexMentionWithCommand == <<"@codex", Ws, "fix">>

Contents ==
  { <<>>,
    <<"word", Ws, "word">>,
    <<"@claude">>,
    <<"@claude", Ws>>,
    MentionWithCommand,
    CodexMentionWithCommand }

\* null
NoMatch == <<"<null>">>

RECURSIVE TrimLeft(_)
TrimLeft(s) ==
  IF Len(s) > 0 /\ IsSpace(s[1]) THEN TrimLeft(Tail(s)) ELSE s

RECURSIVE TrimRight(_)
TrimRight(s) ==
  IF Len(s) > 0 /\ IsSpace(s[Len(s)]) THEN TrimRight(SubSeq(s, 1, Len(s) - 1)) ELSE s

Trim(s) == TrimRight(TrimLeft(s))

\* the lazy capture ([\s\S]*?)(?=@\w+|$): up to the next @word or the end
RECURSIVE CaptureBody(_)
CaptureBody(s) ==
  IF Len(s) = 0 \/ s[1] \in AtWords THEN <<>>
  ELSE <<s[1]>> \o CaptureBody(Tail(s))

\* match[1].toLowerCase()
ProviderOf(mention) == IF mention \in ClaudeMentions THEN "claude" ELSE "codex"

\* key.toLowerCase()
LowerKey(key) == IF key = "Model" THEN "model" ELSE key

Digits == {"0", "1", "2"}

DigitValue(d) == IF d = "0" THEN 0 ELSE IF d = "1" THEN 1 ELSE 2

RECURSIVE LeadingDigits(_)
LeadingDigits(v) ==
  IF Len(v) = 0 \/ v[1] \notin Digits THEN <<>>
  ELSE <<v[1]>> \o LeadingDigits(Tail(v))

RECURSIVE DecimalValue(_)
DecimalValue(d) ==
  IF Len(d) = 0 THEN 0
  ELSE 10 * DecimalValue(SubSeq(d, 1, Len(d) - 1)) + DigitValue(d[Len(d)])

\* a parse that accepts a value only when it is digits throughout
parseInt_Strict(v) ==
  IF LeadingDigits(v) = <<>> \/ LeadingDigits(v) # v THEN <<>>
  ELSE <<DecimalValue(v)>>

\* parseInt(value, 10): the number written by the leading digits, NaN (the
\* empty sequence) when the value does not start with a digit
parseInt(v) ==
  IF LeadingDigits(v) = <<>> THEN <<>> ELSE <<DecimalValue(LeadingDigits(v))>>

\* an undefined model or timeout is the empty sequence
NoParams == [model |-> <<>>, timeout |-> <<>>]

\* the loop over the parameters of a block: [key, value] are the first two
\* parts of a parameter, a parameter without key or value is skipped, the
\* last model and the last parsable timeout win
RECURSIVE parseParams(_, _)
parseParams(params, acc) ==
  IF Len(params) = 0 THEN acc
  ELSE LET param == params[1]
           key   == param[1]
           value == IF Len(param) >= 2 THEN param[2] ELSE <<>>
           next  ==
             IF key = "" \/ value = <<>> THEN acc
             ELSE IF LowerKey(key) = "model" THEN [acc EXCEPT !.model = value]
             ELSE IF LowerKey(key) = "timeout" /\ parseInt(value) # <<>>
               THEN [acc EXCEPT !.timeout = parseInt(value)]
             ELSE acc
       IN  parseParams(Tail(params), next)

NoAIInstruction ==
  [found |-> FALSE, provider |-> "", model |-> <<>>, timeout |-> <<>>,
   command |-> <<>>]

\* the match of aiPattern that starts at the mention text[1], if there is
\* one: an optional block, then whitespace, then the body
matchAt(text) ==
  LET rest       == Tail(text)
      hasBlock   == Len(rest) > 0 /\ rest[1] \in Blocks
      afterBlock == IF hasBlock THEN Tail(rest) ELSE rest
      matches    == Len(afterBlock) > 0 /\ IsSpace(afterBlock[1])
      command    == Trim(CaptureBody(TrimLeft(afterBlock)))
      params     == IF hasBlock THEN parseParams(BlockParts[rest[1]], NoParams)
                    ELSE NoParams
  IN  [matches |-> matches,
       result  |-> IF matches /\ command # <<>>
                     THEN [found |-> TRUE, provider |-> ProviderOf(text[1]),
                           model |-> params.model, timeout |-> params.timeout,
                           command |-> command]
                     ELSE NoAIInstruction]

\* text.match(aiPattern) takes the leftmost position where the pattern
\* matches; an empty command there gives null
RECURSIVE extractAIInstructions(_)
extractAIInstructions(text) ==
  IF Len(text) = 0 THEN NoAIInstruction
  ELSE IF text[1] \in Mentions /\ matchAt(text).matches THEN matchAt(text).result
  ELSE extractAIInstructions(Tail(text))


\* the command of the match whatever it is, an empty string included
extractClaudeInstructions_KeepEmpty(text) == extractAIInstructions(text).command

\* result?.command || null
extractClaudeInstructions(text) ==
  LET result == extractAIInstructions(text)
  IN  IF ~result.found \/ result.command = <<>> THEN NoMatch ELSE result.command

(* ---------------------------------------------------------------------- *)
(* Webhook events                                                         *)
(* ---------------------------------------------------------------------- *)

\* object_kind, and which of event.issue / event.merge_request is present
Events ==
  [ object_kind : {"issue", "merge_request", "note", "push"},
    target      : {"issue", "merge_request", "none"},
    content     : Contents ]

\* an event GitLab can send: an issue event carries an issue, a merge
\* request event a merge request, a note hangs on an issue, a merge request
\* or on something else (commit, snippet); other kinds carry neither.
WellFormed(e) ==
  \/ e.object_kind = "issue" /\ e.target = "issue"
  \/ e.object_kind = "merge_request" /\ e.target = "merge_request"
  \/ e.object_kind = "note"
  \/ e.object_kind = "push" /\ e.target = "none" /\ e.content = <<>>

NoEvent == [object_kind |-> "none", target |-> "none", content |-> <<>>]

NoInstruction == [found |-> FALSE, command |-> <<>>, branch |-> ""]

\* EventProcessor.extractInstruction
extractInstruction(e) ==
  IF e.object_kind \notin {"issue", "merge_request", "note"} THEN NoInstruction
  ELSE LET command == extractClaudeInstructions(e.content)
           branch  == IF e.target = "issue" THEN "default"
                      ELSE IF e.target = "merge_request" THEN "source"
                      ELSE ""
       IN  IF command = NoMatch \/ command = <<>> THEN NoInstruction
           ELSE [found |-> TRUE, command |-> command, branch |-> branch]

\* does postComment / createProgressComment reach a comment API call
HasCommentTarget(e) ==
  \/ e.object_kind = "issue" /\ e.target = "issue"
  \/ e.object_kind = "merge_request" /\ e.target = "merge_request"
  \/ e.object_kind = "note" /\ e.target \in {"issue", "merge_request"}

(* ---------------------------------------------------------------------- *)
(* State                                                                  *)
(* ---------------------------------------------------------------------- *)

VARIABLES
  pc,               \* where each run's processEvent stands
  auth,             \* the verifier's answer for the request: none / valid / invalid
  event,            \* parsed event of the request
  status,           \* HTTP status answered (0: none yet)
  invoked,          \* processEvent was called for the request
  instr,            \* instruction extracted for the run
  pending,          \* an exception is propagating out of executeInstruction
  ws,               \* the run's workspace directory: none / exists / removed
  epc,              \* where the run's executeWithStreaming stands
  variant,          \* the executor that serves the run
  timerArmed,       \* the timeout timer is armed
  timedOut,         \* the timeout timer fired
  procAlive,        \* the agent process / transport stream is still alive
  isAbortError,     \* the error caught by executeWithStreaming is an AbortError
  streamed,         \* progress updates streamed by the agent so far
  result,           \* ProcessResult returned by executeWithStreaming
  pushState,        \* switchToAndPushBranch: none / inFlight / done / failed
  currentCommentId, \* EventProcessor.currentCommentId (0: null)
  progressMessages, \* EventProcessor.progressMessages
  comments,         \* the progress comments, by id: last body, banners rendered
  posted,           \* per run, the flat comments posted by postComment
  calls,            \* per run, how often each operation was called
  request,          \* verifyGitLabSignature's inputs: configured secret, raw body, header
  verdict,          \* its answer: none / accepted / rejected
  compared,         \* it called crypto.timingSafeEqual
  input,            \* the text given to the instruction extractors
  extraction,       \* what extractAIInstructions and extractClaudeInstructions returned
  project,          \* one call of a ProjectManager method: git's answers, what it did
  stream,           \* one agent run seen from its transport: the events read, the updates emitted
  call,             \* one call of handleWebhook, postComment or createProgressComment
  inflight,         \* the comment writes of updateProgressComment that were sent and not yet applied
  env               \* the environment: which event kinds arrive, how the comment API answers

vars ==
  << pc, auth, event, status, invoked, instr, pending, ws, epc,
     variant, timerArmed, timedOut, procAlive, isAbortError, streamed,
     result, pushState, currentCommentId, progressMessages, comments,
     posted, calls, request, verdict, compared, input, extraction, project,
     stream, call, inflight, env >>

\* the requests, numbered in the order the model introduces them
Runs == DOMAIN pc

serverVars == << auth, event, status, invoked, env >>
execVars == << epc, timerArmed, timedOut, procAlive, isAbortError, streamed, result >>
commentVars == << progressMessages, comments, posted >>
utilVars == << request, verdict, compared, input, extraction, project, stream, call, inflight >>

Variants == {"cli", "claudeSdk", "codexSdk"}

\* eventProcessor.ts imports StreamingClaudeExecutor from
\* ./streamingClaudeExecutor: the executor that spawns the claude CLI
ExecutorOfProcessor == "cli"

\* error: "status" when the message of the error is built from the
\* non-success terminal status of the transport, "other" for any other
\* error message
NoResult == [returned |-> FALSE, success |-> FALSE, changes |-> 0, error |-> "none"]

NoCalls ==
  [ prepareProject |-> 0, cleanup |-> 0, onError |-> 0, reportError |-> 0,
    createBranch |-> 0, createMergeRequest |-> 0, agent |-> 0,
    createProgressComment |-> 0, prepareFailed |-> 0, rmFailed |-> 0,
    postThrew |-> 0, push |-> 0, branchCreated |-> 0, mrCreated |-> 0 ]

\* a progress comment: the entries and banner of its last body, how often a
\* terminal banner was written to it, and whether it was written in the
\* processing state after a terminal banner
NoComment ==
  [exists |-> FALSE, entries |-> <<>>, banner |-> "none", terminals |-> 0,
   reopened |-> FALSE]

\* the flat comments one run posted with postComment: the final comments
\* (success / failure / internal), and whether a fallback copy of a progress
\* update was posted
NoPosts == [final |-> <<>>, updates |-> FALSE, mrLink |-> FALSE]

\* how the comment API can answer an update of the progress comment: the
\* update succeeds, it fails and the fallback comment is posted, or both fail
ApiAnswers == {"ok", "fallback", "lost"}

ObjectKinds == {"issue", "merge_request", "note", "push"}

\* any event kind arrives, any comment update may fail, the agent streams
\* progress, removing a directory may fail
Faulty ==
  [kinds |-> ObjectKinds, api |-> ApiAnswers, progress |-> MaxProgress,
   rm |-> BOOLEAN, contents |-> Contents, terminal |-> BOOLEAN]

\* issue events only, texts that mention claude or nobody, comment updates
\* succeed, the agent's output holds no progress message, directories can
\* be removed
Calm ==
  [kinds |-> {"issue"}, api |-> {"ok"}, progress |-> 0, rm |-> {TRUE},
   contents |-> Contents \ {CodexMentionWithCommand}, terminal |-> {FALSE}]

\* no call of the verifier
NoRequest == [secret |-> <<>>, body |-> "", header |-> <<>>]

\* no call of a ProjectManager method
NoProjectCall == [op |-> "none"]

\* no call under observation
NoCall == [op |-> "none"]

\* no comment write was sent: the number of writes sent, the writes not yet
\* applied, and the banner of the body sent last
NoWrites == [sent |-> 0, writes |-> {}, banner |-> "none"]

\* no agent run under observation
NoStream == [op |-> "none"]

\* no call of the extractors
NoExtraction == [done |-> FALSE, ai |-> NoAIInstruction, claude |-> NoMatch]

\* the state of the server after construction, before any request
InitProgram(R, environment) ==
  /\ pc = [r \in R |-> "idle"]
  /\ auth = [r \in R |-> "none"]
  /\ event = [r \in R |-> NoEvent]
  /\ status = [r \in R |-> 0]
  /\ invoked = [r \in R |-> FALSE]
  /\ instr = [r \in R |-> NoInstruction]
  /\ pending = [r \in R |-> FALSE]
  /\ ws = [r \in R |-> "none"]
  /\ epc = [r \in R |-> "idle"]
  /\ variant = [r \in R |-> ExecutorOfProcessor]
  /\ timerArmed = [r \in R |-> FALSE]
  /\ timedOut = [r \in R |-> FALSE]
  /\ procAlive = [r \in R |-> FALSE]
  /\ isAbortError = [r \in R |-> FALSE]
  /\ streamed = [r \in R |-> 0]
  /\ result = [r \in R |-> NoResult]
  /\ pushState = [r \in R |-> "none"]
  /\ currentCommentId = 0
  /\ progressMessages = <<>>
  /\ comments = [c \in R |-> NoComment]
  /\ posted = [r \in R |-> NoPosts]
  /\ calls = [r \in R |-> NoCalls]
  /\ env = environment

InitWith(R, environment) ==
  /\ InitProgram(R, environment)
  /\ request = NoRequest
  /\ verdict = "none"
  /\ compared = FALSE
  /\ input = <<>>
  /\ extraction = NoExtraction
  /\ project = NoProjectCall
  /\ stream = NoStream
  /\ call = NoCall
  /\ inflight = NoWrites

Init == InitWith(1..NumRuns, Faulty)

\* count one more call of each operation in ops
Bumped(c, ops) == [op \in DOMAIN c |-> IF op \in ops THEN c[op] + 1 ELSE c[op]]

Called(r, ops) == calls' = [calls EXCEPT ![r] = Bumped(@, ops)]

(* ---------------------------------------------------------------------- *)
(* The progress comment                                                   *)
(* ---------------------------------------------------------------------- *)

\* slice(-10): the comment lists the last ten messages
RecentLimit == 10

Recent(msgs) ==
  IF Len(msgs) <= RecentLimit THEN msgs
  ELSE SubSeq(msgs, Len(msgs) - RecentLimit + 1, Len(msgs))

\* a message of the log: its text, and in place of the timestamp the run
\* that reported it
Msg(r, text) == [run |-> r, text |-> text]

\* no message counts as a duplicate
isDuplicate_Never(msgs, text) == FALSE

isDuplicate(msgs, text) == \E i \in 1..Len(msgs) : msgs[i].text = text

Pushed(msgs, r, text) ==
  IF isDuplicate(msgs, text) THEN msgs ELSE Append(msgs, Msg(r, text))

Banner(isComplete, isError) ==
  IF isComplete THEN (IF isError THEN "error" ELSE "success") ELSE "processing"

IsTerminal(banner) == banner \in {"success", "error"}

Written(c, msgs, banner) ==
  [ exists    |-> c.exists,
    entries   |-> Recent(msgs),
    banner    |-> banner,
    terminals |-> IF IsTerminal(banner) THEN c.terminals + 1 ELSE c.terminals,
    reopened  |-> c.reopened \/ (c.terminals > 0 /\ ~IsTerminal(banner)) ]

ApiOutcomes == env.api

\* EventProcessor.updateProgressComment followed by updateComment.  api says
\* how the comment API answers: the update succeeds, the update fails and
\* the fallback comment is posted, or both fail.
updateProgressComment(r, text, isComplete, isError, api) ==
  IF currentCommentId = 0
    THEN UNCHANGED commentVars
    ELSE LET msgs == Pushed(progressMessages, r, text)
             id   == currentCommentId
         IN  /\ progressMessages' = msgs
             /\ IF ~HasCommentTarget(event[r])
                  THEN UNCHANGED << comments, posted >>
                ELSE IF api = "ok"
                  THEN /\ comments' = [comments EXCEPT
                              ![id] = Written(@, msgs, Banner(isComplete, isError))]
                       /\ UNCHANGED posted
                ELSE IF api = "fallback"
                  THEN /\ posted' = [posted EXCEPT ![r].updates = TRUE]
                       /\ UNCHANGED comments
                ELSE UNCHANGED << comments, posted >>

(* ---------------------------------------------------------------------- *)
(* WebhookServer.handleWebhook                                            *)
(* ---------------------------------------------------------------------- *)

\* what handleWebhook does with a request, given the verifier's answer and
\* whether JSON.parse of the raw body succeeds: the status it answers and
\* whether it calls processEvent
handleWebhook_NoReturn(valid, parses) ==
  IF ~valid THEN [status |-> 401, process |-> TRUE]
  ELSE IF ~parses THEN [status |-> 500, process |-> FALSE]
  ELSE [status |-> 200, process |-> TRUE]

handleWebhookOutcome(valid, parses) ==
  IF ~valid THEN [status |-> 401, process |-> FALSE]
  ELSE IF ~parses THEN [status |-> 500, process |-> FALSE]
  ELSE [status |-> 200, process |-> TRUE]

HandleWebhook(r) ==
  /\ pc[r] = "idle"
  /\ \E h \in Headers, b \in Bodies, parses \in BOOLEAN, e \in Events :
       /\ WellFormed(e)
       /\ e.object_kind \in env.kinds
       /\ e.content \in env.contents
       /\ LET valid == verifyGitLabSignature(b, h)
              out   == handleWebhookOutcome(valid, parses)
          IN  /\ auth' = [auth EXCEPT ![r] = IF valid THEN "valid" ELSE "invalid"]
              /\ status' = [status EXCEPT ![r] = out.status]
              /\ invoked' = [invoked EXCEPT ![r] = out.process]
              /\ event' = [event EXCEPT ![r] = IF out.process THEN e ELSE NoEvent]
              /\ pc' = [pc EXCEPT ![r] = IF out.process THEN "extract" ELSE "answered"]
  /\ UNCHANGED << instr, pending, ws, variant, pushState, currentCommentId, calls, env >>
  /\ UNCHANGED execVars
  /\ UNCHANGED commentVars
  /\ UNCHANGED utilVars

(* ---------------------------------------------------------------------- *)
(* EventProcessor.processEvent / executeInstruction                       *)
(* ---------------------------------------------------------------------- *)

\* processEvent after extractInstruction: without an instruction it
\* returns, with one it enters executeInstruction
processEvent_IgnoreNull(instruction) == "start"

processEventNext(instruction) ==
  IF ~instruction.found THEN "done" ELSE "start"

ExtractInstruction(r) ==
  /\ pc[r] = "extract"
  /\ instr' = [instr EXCEPT ![r] = extractInstruction(event[r])]
  /\ pc' = [pc EXCEPT ![r] = processEventNext(extractInstruction(event[r]))]
  /\ UNCHANGED << pending, ws, variant, pushState, currentCommentId, calls >>
  /\ UNCHANGED serverVars
  /\ UNCHANGED utilVars
  /\ UNCHANGED execVars
  /\ UNCHANGED commentVars

\* executeInstruction that goes to prepareProject without a progress comment
ExecuteInstruction_NoComment(r) ==
  /\ pc[r] = "start"
  /\ progressMessages' = <<>>
  /\ pc' = [pc EXCEPT ![r] = "prepare"]
  /\ UNCHANGED << instr, pending, ws, variant, pushState, currentCommentId,
                  comments, posted, calls >>
  /\ UNCHANGED serverVars
  /\ UNCHANGED utilVars
  /\ UNCHANGED execVars

\* executeInstruction up to its first await: the log is cleared and the
\* request that creates the progress comment is sent
ExecuteInstruction(r) ==
  /\ pc[r] = "start"
  /\ progressMessages' = <<>>
  /\ pc' = [pc EXCEPT ![r] = "creating"]
  /\ Called(r, {"createProgressComment"})
  /\ UNCHANGED << instr, pending, ws, variant, pushState, currentCommentId,
                  comments, posted >>
  /\ UNCHANGED serverVars
  /\ UNCHANGED utilVars
  /\ UNCHANGED execVars

\* createProgressComment returns: the id of the new comment, or null when
\* the event has nothing to comment on or the API call failed
ProgressCommentCreated(r) ==
  /\ pc[r] = "creating"
  /\ \E ok \in BOOLEAN :
       IF ok /\ HasCommentTarget(event[r])
         THEN /\ comments' = [comments EXCEPT ![r] =
                     [NoComment EXCEPT !.exists = TRUE, !.banner = "initial"]]
              /\ currentCommentId' = r
         ELSE /\ currentCommentId' = 0
              /\ UNCHANGED comments
  /\ pc' = [pc EXCEPT ![r] = "prepare"]
  /\ UNCHANGED << instr, pending, ws, variant, pushState, progressMessages,
                  posted, calls >>
  /\ UNCHANGED serverVars
  /\ UNCHANGED utilVars
  /\ UNCHANGED execVars

(* ---------------------------------------------------------------------- *)
(* ProjectManager.prepareProject / cleanup                                *)
(* ---------------------------------------------------------------------- *)

\* fs.rm(projectPath, {recursive, force}) in cleanup: the directory is gone,
\* or the removal failed (logged only) and what was there stays
Removed_NotRecursive(dir, rmOk) == dir

Removed(dir, rmOk) ==
  IF dir = "none" THEN "none" ELSE IF rmOk THEN "removed" ELSE "exists"

\* prepareProject: the clone succeeds and the path is returned, or it
\* fails, leaving a partial directory or none; then cleanup runs and the
\* error is thrown to processEvent
PrepareProject(r) ==
  /\ pc[r] = "prepare"
  /\ \/ /\ ws' = [ws EXCEPT ![r] = "exists"]
        /\ pc' = [pc EXCEPT ![r] = "exec"]
        /\ epc' = [epc EXCEPT ![r] = IF variant[r] = "cli" THEN "check" ELSE "initial"]
        /\ Called(r, {"prepareProject"})
     \/ \E partial \in BOOLEAN, rmOk \in env.rm :
          /\ ws' = [ws EXCEPT ![r] = Removed(IF partial THEN "exists" ELSE "none", rmOk)]
          /\ pc' = [pc EXCEPT ![r] = "report"]
          /\ Called(r, {"prepareProject", "prepareFailed", "cleanup"}
                       \cup (IF partial /\ ~rmOk THEN {"rmFailed"} ELSE {}))
          /\ UNCHANGED epc
  /\ UNCHANGED << instr, pending, variant, pushState, currentCommentId >>
  /\ UNCHANGED << timerArmed, timedOut, procAlive, isAbortError, streamed, result >>
  /\ UNCHANGED serverVars
  /\ UNCHANGED utilVars
  /\ UNCHANGED commentVars

(* ---------------------------------------------------------------------- *)
(* executeWithStreaming of the three executors                            *)
(* ---------------------------------------------------------------------- *)

Text(name) == [t |-> name, u |-> 0]

OnProgress(r, text, isComplete, api) ==
  updateProgressComment(r, text, isComplete, FALSE, api)

OnError(r, text, api) ==
  updateProgressComment(r, text, TRUE, TRUE, api)

\* checkClaudeCliAvailability (CLI executor only)
ExecCheckCli(r) ==
  /\ pc[r] = "exec" /\ epc[r] = "check"
  /\ \E ok \in BOOLEAN :
       epc' = [epc EXCEPT ![r] = IF ok THEN "initial" ELSE "catch"]
  /\ UNCHANGED << pc, instr, pending, ws, variant, pushState, currentCommentId, calls >>
  /\ UNCHANGED << timerArmed, timedOut, procAlive, isAbortError, streamed, result >>
  /\ UNCHANGED serverVars
  /\ UNCHANGED utilVars
  /\ UNCHANGED commentVars

\* the initial progress message, then the agent is started and the
\* timeout timer armed
ExecInitial(r) ==
  /\ pc[r] = "exec" /\ epc[r] = "initial"
  /\ \E api \in ApiOutcomes : OnProgress(r, Text("analyzing"), FALSE, api)
  /\ epc' = [epc EXCEPT ![r] = "running"]
  /\ timerArmed' = [timerArmed EXCEPT ![r] = TRUE]
  /\ procAlive' = [procAlive EXCEPT ![r] = TRUE]
  /\ Called(r, {"agent"})
  /\ UNCHANGED << pc, instr, pending, ws, variant, pushState, currentCommentId >>
  /\ UNCHANGED << timedOut, isAbortError, streamed, result >>
  /\ UNCHANGED serverVars
  /\ UNCHANGED utilVars

\* a progress update from the agent's output: the stdout/stderr handlers of
\* the CLI process fire as long as the process lives, the SDK loops only
\* while the stream is being read
ExecProgress(r) ==
  /\ streamed[r] < env.progress
  /\ IF variant[r] = "cli" THEN procAlive[r] ELSE epc[r] = "running"
  /\ \E api \in ApiOutcomes :
       OnProgress(r, [t |-> "stream", u |-> streamed[r] + 1], FALSE, api)
  /\ streamed' = [streamed EXCEPT ![r] = @ + 1]
  /\ UNCHANGED << pc, instr, pending, ws, variant, pushState, currentCommentId, calls >>
  /\ UNCHANGED << epc, timerArmed, timedOut, procAlive, isAbortError, result >>
  /\ UNCHANGED serverVars
  /\ UNCHANGED utilVars

\* where the timeout handler leaves executeWithStreaming: the CLI executor
\* rejects the promise that executeWithStreaming awaits, the SDK executors
\* only abort the transport
AfterTimeout(v) == IF v = "cli" THEN "catch" ELSE "running"

\* the timeout timer fires: the agent is killed or aborted and onError is
\* called with the timeout message
ExecTimeout(r) ==
  /\ timerArmed[r]
  /\ timerArmed' = [timerArmed EXCEPT ![r] = FALSE]
  /\ timedOut' = [timedOut EXCEPT ![r] = TRUE]
  /\ \E api \in ApiOutcomes : OnError(r, Text("timed out"), api)
  /\ Called(r, {"onError"})
  /\ epc' = [epc EXCEPT ![r] = AfterTimeout(variant[r])]
  /\ UNCHANGED << pc, instr, pending, ws, variant, pushState, currentCommentId >>
  /\ UNCHANGED << procAlive, isAbortError, streamed, result >>
  /\ UNCHANGED serverVars
  /\ UNCHANGED utilVars

\* CLI executor: the process closes with an exit code (or fails to spawn).
\* The handler clears the timer, flushes a last progress message when the
\* buffer holds one, and settles the promise if it is not settled yet.
ExecClose(r) ==
  /\ variant[r] = "cli" /\ procAlive[r]
  /\ procAlive' = [procAlive EXCEPT ![r] = FALSE]
  /\ timerArmed' = [timerArmed EXCEPT ![r] = FALSE]
  /\ \E flush \in BOOLEAN, api \in ApiOutcomes :
       IF flush /\ streamed[r] < env.progress
         THEN /\ OnProgress(r, [t |-> "stream", u |-> streamed[r] + 1], FALSE, api)
              /\ streamed' = [streamed EXCEPT ![r] = @ + 1]
         ELSE UNCHANGED << progressMessages, comments, posted, streamed >>
  /\ \E code0 \in BOOLEAN :
       epc' = [epc EXCEPT ![r] =
                 IF epc[r] # "running" THEN @ ELSE IF code0 THEN "collect" ELSE "catch"]
  /\ UNCHANGED << pc, instr, pending, ws, variant, pushState, currentCommentId, calls >>
  /\ UNCHANGED << timedOut, isAbortError, result >>
  /\ UNCHANGED serverVars
  /\ UNCHANGED utilVars

\* the message of the error the stream loop throws: for a result message
\* whose subtype is not success, a turn.failed or an error event it is
\* built from what the transport reported
ThrownBy(reported) == IF reported THEN "status" ELSE "other"

\* SDK executors: the stream ends, or reading it throws; after an abort the
\* transport may end the stream, throw an AbortError or throw another error.
\* The finally block clears the timer.
ExecStreamEnd(r) ==
  /\ variant[r] # "cli" /\ epc[r] = "running"
  /\ procAlive' = [procAlive EXCEPT ![r] = FALSE]
  /\ timerArmed' = [timerArmed EXCEPT ![r] = FALSE]
  /\ \/ /\ epc' = [epc EXCEPT ![r] = "collect"]
        /\ UNCHANGED << isAbortError, result >>
     \/ /\ epc' = [epc EXCEPT ![r] = "catch"]
        /\ \E reported \in env.terminal :
             result' = [result EXCEPT ![r].error = ThrownBy(reported)]
        /\ UNCHANGED isAbortError
     \/ /\ timedOut[r]
        /\ epc' = [epc EXCEPT ![r] = "catch"]
        /\ isAbortError' = [isAbortError EXCEPT ![r] = TRUE]
        /\ UNCHANGED result
  /\ UNCHANGED << pc, instr, pending, ws, variant, pushState, currentCommentId, calls >>
  /\ UNCHANGED << timedOut, streamed >>
  /\ UNCHANGED serverVars
  /\ UNCHANGED utilVars
  /\ UNCHANGED commentVars

\* getFileChanges, and the progress message that counts the changes
ExecCollect(r) ==
  /\ pc[r] = "exec" /\ epc[r] = "collect"
  /\ \E n \in 0..MaxChanges, api \in ApiOutcomes :
       /\ result' = [result EXCEPT ![r].changes = n]
       /\ IF n > 0
            THEN OnProgress(r, [t |-> "made changes", u |-> n], FALSE, api)
            ELSE UNCHANGED commentVars
  /\ epc' = [epc EXCEPT ![r] = "complete"]
  /\ UNCHANGED << pc, instr, pending, ws, variant, pushState, currentCommentId, calls >>
  /\ UNCHANGED << timerArmed, timedOut, procAlive, isAbortError, streamed >>
  /\ UNCHANGED serverVars
  /\ UNCHANGED utilVars

\* the terminal progress message, then the success result is returned
ExecComplete(r) ==
  /\ pc[r] = "exec" /\ epc[r] = "complete"
  /\ \E api \in ApiOutcomes : OnProgress(r, Text("completed"), TRUE, api)
  /\ result' = [result EXCEPT ![r].returned = TRUE, ![r].success = TRUE]
  /\ epc' = [epc EXCEPT ![r] = "returned"]
  /\ UNCHANGED << pc, instr, pending, ws, variant, pushState, currentCommentId, calls >>
  /\ UNCHANGED << timerArmed, timedOut, procAlive, isAbortError, streamed >>
  /\ UNCHANGED serverVars
  /\ UNCHANGED utilVars

\* does the catch block of executeWithStreaming call onError: the CLI
\* executor always, the SDK executors unless the error is an AbortError
CatchReports(v, abortError) == v = "cli" \/ ~abortError

\* the catch block of executeWithStreaming
ExecCatch(r) ==
  /\ pc[r] = "exec" /\ epc[r] = "catch"
  /\ IF CatchReports(variant[r], isAbortError[r])
       THEN /\ \E api \in ApiOutcomes : OnError(r, Text("failed"), api)
            /\ Called(r, {"onError"})
       ELSE UNCHANGED << progressMessages, comments, posted, calls >>
  /\ result' = [result EXCEPT ![r].returned = TRUE, ![r].success = FALSE,
                              ![r].error = IF @ = "none" THEN "other" ELSE @]
  /\ epc' = [epc EXCEPT ![r] = "returned"]
  /\ UNCHANGED << pc, instr, pending, ws, variant, pushState, currentCommentId >>
  /\ UNCHANGED << timerArmed, timedOut, procAlive, isAbortError, streamed >>
  /\ UNCHANGED serverVars
  /\ UNCHANGED utilVars

(* ---------------------------------------------------------------------- *)
(* EventProcessor.handleSuccess / handleFailure / reportError             *)
(* ---------------------------------------------------------------------- *)

\* handleSuccess publishes only when the result lists changes
Publishes_IgnoreChanges(res) == res.success

Publishes(res) == res.success /\ res.changes > 0

\* gitlabService.createBranch, then the progress message naming the branch
CreateBranch(r) ==
  /\ pc[r] = "exec" /\ epc[r] = "returned" /\ Publishes(result[r])
  /\ \/ /\ Called(r, {"createBranch", "branchCreated"})
        /\ \E api \in ApiOutcomes :
             updateProgressComment(r, [t |-> "created branch", u |-> r], FALSE, FALSE, api)
        /\ pc' = [pc EXCEPT ![r] = "push"]
     \/ /\ Called(r, {"createBranch"})
        /\ pc' = [pc EXCEPT ![r] = "post"]
        /\ UNCHANGED commentVars
  /\ UNCHANGED << instr, pending, ws, variant, pushState, currentCommentId >>
  /\ UNCHANGED execVars
  /\ UNCHANGED serverVars
  /\ UNCHANGED utilVars

\* commitAndPushToNewBranch is called: switchToAndPushBranch is in flight
PushStart(r) ==
  /\ pc[r] = "push"
  /\ pushState' = [pushState EXCEPT ![r] = "inFlight"]
  /\ pc' = [pc EXCEPT ![r] = "pushing"]
  /\ Called(r, {"push"})
  /\ UNCHANGED << instr, pending, ws, variant, currentCommentId >>
  /\ UNCHANGED execVars
  /\ UNCHANGED serverVars
  /\ UNCHANGED utilVars
  /\ UNCHANGED commentVars


\* the merge request is created whether the push succeeded or not
AfterPush_Ignore(ok) == "mr"

\* a failed push is attempted again
AfterPush_Retry(ok) == IF ok THEN "mr" ELSE "push"

\* where handleSuccess continues when the awaited push has settled
AfterPush(ok) == IF ok THEN "mr" ELSE "post"

\* switchToAndPushBranch settles: pushed, or an error that handleSuccess
\* catches
PushEnd(r) ==
  /\ pc[r] = "pushing"
  /\ \E ok \in BOOLEAN :
       /\ pushState' = [pushState EXCEPT ![r] = IF ok THEN "done" ELSE "failed"]
       /\ pc' = [pc EXCEPT ![r] = AfterPush(ok)]
  /\ UNCHANGED << instr, pending, ws, variant, currentCommentId, calls >>
  /\ UNCHANGED execVars
  /\ UNCHANGED serverVars
  /\ UNCHANGED utilVars
  /\ UNCHANGED commentVars

\* gitlabService.createMergeRequest, then the progress message with its URL
CreateMergeRequest(r) ==
  /\ pc[r] = "mr"
  /\ \/ /\ Called(r, {"createMergeRequest", "mrCreated"})
        /\ \E api \in ApiOutcomes :
             updateProgressComment(r, [t |-> "created merge request", u |-> r],
                                   FALSE, FALSE, api)
     \/ /\ Called(r, {"createMergeRequest"})
        /\ UNCHANGED commentVars
  /\ pc' = [pc EXCEPT ![r] = "post"]
  /\ UNCHANGED << instr, pending, ws, variant, pushState, currentCommentId >>
  /\ UNCHANGED execVars
  /\ UNCHANGED serverVars
  /\ UNCHANGED utilVars

\* responseMessage of handleSuccess holds the link of the merge request
\* when createMergeRequest returned one
HasMergeRequestLink(r) == result[r].success /\ calls[r].mrCreated = 1

\* the comment handleSuccess / handleFailure posts
OutcomeComment(res) == IF res.success THEN "success" ELSE "failure"

\* postComment(event, message): nothing is sent for an event without an
\* issue or merge request; otherwise the comment is posted, or the API
\* call throws
PostOutcomes(e) == IF HasCommentTarget(e) THEN {"posted", "threw"} ELSE {"nothing"}

\* the final comment of handleSuccess / handleFailure; an error thrown by
\* postComment leaves executeInstruction through its finally block
PostResult(r) ==
  /\ \/ pc[r] = "post"
     \/ pc[r] = "exec" /\ epc[r] = "returned" /\ ~Publishes(result[r])
  /\ \E out \in PostOutcomes(event[r]) :
       /\ posted' = [posted EXCEPT
             ![r].final = IF out = "posted" THEN Append(@, OutcomeComment(result[r])) ELSE @,
             ![r].mrLink = out = "posted" /\ HasMergeRequestLink(r)]
       /\ pending' = [pending EXCEPT ![r] = (out = "threw")]
       /\ Called(r, IF out = "threw" THEN {"postThrew"} ELSE {})
  /\ pc' = [pc EXCEPT ![r] = "cleanup"]
  /\ UNCHANGED << instr, ws, variant, pushState, currentCommentId,
                  progressMessages, comments >>
  /\ UNCHANGED execVars
  /\ UNCHANGED serverVars
  /\ UNCHANGED utilVars

\* where processEvent continues after the finally block of
\* executeInstruction: in its catch block when an error is propagating

\* processEvent without a catch block: the error leaves processEvent
AfterFinally_Uncaught(thrown) == IF thrown THEN "crashed" ELSE "done"

AfterFinally_AlwaysReport(thrown) == "report"

AfterFinally(thrown) == IF thrown THEN "report" ELSE "done"

\* cleanup at the end of the try block instead of in a finally block
Cleanup_NotInFinally(r) ==
  /\ pc[r] = "cleanup"
  /\ IF pending[r]
       THEN UNCHANGED << ws, calls >>
       ELSE /\ ws' = [ws EXCEPT ![r] = Removed(@, TRUE)]
            /\ Called(r, {"cleanup"})
  /\ pc' = [pc EXCEPT ![r] = AfterFinally(pending[r])]
  /\ UNCHANGED << instr, pending, variant, pushState, currentCommentId >>
  /\ UNCHANGED execVars
  /\ UNCHANGED serverVars
  /\ UNCHANGED utilVars
  /\ UNCHANGED commentVars

\* cleanup without its try/catch: a failed removal is thrown out of the
\* finally block into the catch block of processEvent
Cleanup_Raises(r) ==
  /\ pc[r] = "cleanup"
  /\ \E rmOk \in env.rm :
       /\ ws' = [ws EXCEPT ![r] = Removed(@, rmOk)]
       /\ Called(r, {"cleanup"} \cup (IF rmOk THEN {} ELSE {"rmFailed"}))
       /\ pc' = [pc EXCEPT ![r] = AfterFinally(pending[r] \/ ~rmOk)]
  /\ UNCHANGED << instr, pending, variant, pushState, currentCommentId >>
  /\ UNCHANGED execVars
  /\ UNCHANGED serverVars
  /\ UNCHANGED utilVars
  /\ UNCHANGED commentVars

\* the finally block of executeInstruction: projectManager.cleanup
Cleanup(r) ==
  /\ pc[r] = "cleanup"
  /\ \E rmOk \in env.rm :
       /\ ws' = [ws EXCEPT ![r] = Removed(@, rmOk)]
       /\ Called(r, {"cleanup"} \cup (IF rmOk THEN {} ELSE {"rmFailed"}))
  /\ pc' = [pc EXCEPT ![r] = AfterFinally(pending[r])]
  /\ UNCHANGED << instr, pending, variant, pushState, currentCommentId >>
  /\ UNCHANGED execVars
  /\ UNCHANGED serverVars
  /\ UNCHANGED utilVars
  /\ UNCHANGED commentVars


\* the server awaits processEvent and answers 500 when the run ended in
\* reportError
ReportError_AnswersError(r) ==
  /\ pc[r] = "report"
  /\ \E out \in PostOutcomes(event[r]) :
       /\ posted' = [posted EXCEPT ![r].final =
             IF out = "posted" THEN Append(@, "internal") ELSE @]
       /\ Called(r, {"reportError"}
                    \cup (IF out = "threw" THEN {"postThrew"} ELSE {}))
  /\ pc' = [pc EXCEPT ![r] = "done"]
  /\ status' = [status EXCEPT ![r] = 500]
  /\ UNCHANGED << instr, pending, ws, variant, pushState, currentCommentId,
                  progressMessages, comments, auth, event, invoked, env >>
  /\ UNCHANGED execVars
  /\ UNCHANGED utilVars

\* the catch block of processEvent: reportError posts the internal error
\* comment and swallows a failure to post it
ReportError(r) ==
  /\ pc[r] = "report"
  /\ \E out \in PostOutcomes(event[r]) :
       /\ posted' = [posted EXCEPT ![r].final =
             IF out = "posted" THEN Append(@, "internal") ELSE @]
       /\ Called(r, {"reportError"}
                    \cup (IF out = "threw" THEN {"postThrew"} ELSE {}))
  /\ pc' = [pc EXCEPT ![r] = "done"]
  /\ UNCHANGED << instr, pending, ws, variant, pushState, currentCommentId,
                  progressMessages, comments >>
  /\ UNCHANGED execVars
  /\ UNCHANGED serverVars
  /\ UNCHANGED utilVars

(* ---------------------------------------------------------------------- *)
(* Specifications                                                         *)
(* ---------------------------------------------------------------------- *)

Executor(r) ==
  \/ ExecCheckCli(r)
  \/ ExecInitial(r)
  \/ ExecProgress(r)
  \/ ExecTimeout(r)
  \/ ExecClose(r)
  \/ ExecStreamEnd(r)
  \/ ExecCollect(r)
  \/ ExecComplete(r)
  \/ ExecCatch(r)

\* the steps of one request other than the agent's streamed progress
Request(r) ==
  \/ HandleWebhook(r)
  \/ ExtractInstruction(r)
  \/ ExecuteInstruction(r)
  \/ ProgressCommentCreated(r)
  \/ PrepareProject(r)
  \/ ExecCheckCli(r)
  \/ ExecInitial(r)
  \/ ExecTimeout(r)
  \/ ExecClose(r)
  \/ ExecCollect(r)
  \/ ExecComplete(r)
  \/ ExecCatch(r)
  \/ CreateBranch(r)
  \/ PushStart(r)
  \/ PushEnd(r)
  \/ CreateMergeRequest(r)
  \/ PostResult(r)
  \/ Cleanup(r)
  \/ ReportError(r)

Next == \E r \in 1..NumRuns : Request(r) \/ ExecProgress(r)

Spec == Init /\ [][Next]_vars

\* Requests that are in flight together on the one EventProcessor, in an
\* environment without comment API failures.
InitShared == InitWith(1..NumShared, Calm)

NextShared == \E r \in 1..NumShared : Request(r)

SpecShared == InitShared /\ [][NextShared]_vars

\* One call of executeWithStreaming on each of the three executors, made
\* by executeInstruction for an issue event whose progress comment exists.
IssueEvent == [object_kind |-> "issue", target |-> "issue", content |-> MentionWithCommand]

InitExec ==
  /\ pc = [r \in 1..NumRuns |-> IF r = 1 THEN "exec" ELSE "idle"]
  /\ auth = [r \in 1..NumRuns |-> IF r = 1 THEN "valid" ELSE "none"]
  /\ event = [r \in 1..NumRuns |-> IF r = 1 THEN IssueEvent ELSE NoEvent]
  /\ status = [r \in 1..NumRuns |-> IF r = 1 THEN 200 ELSE 0]
  /\ invoked = [r \in 1..NumRuns |-> r = 1]
  /\ instr = [r \in 1..NumRuns |->
                IF r = 1 THEN extractInstruction(IssueEvent) ELSE NoInstruction]
  /\ pending = [r \in 1..NumRuns |-> FALSE]
  /\ ws = [r \in 1..NumRuns |-> IF r = 1 THEN "exists" ELSE "none"]
  /\ variant \in [1..NumRuns -> Variants]
  /\ epc = [r \in 1..NumRuns |-> IF r # 1 THEN "idle"
                           ELSE IF variant[r] = "cli" THEN "check" ELSE "initial"]
  /\ timerArmed = [r \in 1..NumRuns |-> FALSE]
  /\ timedOut = [r \in 1..NumRuns |-> FALSE]
  /\ procAlive = [r \in 1..NumRuns |-> FALSE]
  /\ isAbortError = [r \in 1..NumRuns |-> FALSE]
  /\ streamed = [r \in 1..NumRuns |-> 0]
  /\ result = [r \in 1..NumRuns |-> NoResult]
  /\ pushState = [r \in 1..NumRuns |-> "none"]
  /\ currentCommentId = 1
  /\ progressMessages = <<>>
  /\ comments = [c \in 1..NumRuns |->
                   IF c = 1 THEN [NoComment EXCEPT !.exists = TRUE, !.banner = "initial"]
                   ELSE NoComment]
  /\ posted = [r \in 1..NumRuns |-> NoPosts]
  /\ calls = [r \in 1..NumRuns |->
                IF r = 1 THEN Bumped(NoCalls, {"createProgressComment", "prepareProject"})
                ELSE NoCalls]
  /\ request = NoRequest
  /\ verdict = "none"
  /\ compared = FALSE
  /\ input = <<>>
  /\ extraction = NoExtraction
  /\ project = NoProjectCall
  /\ stream = NoStream
  /\ call = NoCall
  /\ inflight = NoWrites
  /\ env = Faulty

NextExec == \E r \in 1..NumRuns : Executor(r)

SpecExec == InitExec /\ [][NextExec]_vars

(* ---------------------------------------------------------------------- *)
(* The functions of utils/webhook.ts on their own: one call of the        *)
(* verifier, or one call of the two extractors, on an enumerated input    *)
(* ---------------------------------------------------------------------- *)

Requests == [secret : Secrets, body : Bodies, header : Headers]

Alphabet ==
  {"@claude", "@Codex", "@bob", Ws, Nl, Comma, "fix",
   "[model=m1,timeout=20]", "[timeout=20min]"}

\* longer texts: a multi-line body, a second mention after the command,
\* a first mention that no whitespace follows, the other parameter blocks
Samples ==
  { <<"word", Ws, "@Claude", "[model=m1,timeout=20]", Ws, Nl, "fix", Nl, "word", Nl,
      "@codex", "[timeout=20min]", Ws, "other">>,
    <<"@codex", "[Model=m1,foo=bar,timeout=abc]", Ws, "fix", Ws, "word", Ws>>,
    <<"@claude", "[model=,=m1,model]", Nl, "fix", Comma, Ws, "word">>,
    <<"@claude", Comma, Ws, "word", Ws, "@Codex", Ws, "fix">>,
    <<"@Claude", Ws, "fix", Ws, "@claude", "[model=m1,timeout=20]", Ws, "other">> }

Texts == Samples \cup UNION { [1..n -> Alphabet] : n \in 0..MaxTextLen }

InitUtils ==
  /\ InitProgram(1..NumRuns, Faulty)
  /\ verdict = "none"
  /\ compared = FALSE
  /\ extraction = NoExtraction
  /\ project = NoProjectCall
  /\ stream = NoStream
  /\ call = NoCall
  /\ inflight = NoWrites
  /\ \/ request \in Requests /\ input = <<>>
     \/ request = NoRequest /\ input \in Texts

Verify ==
  /\ project = NoProjectCall
  /\ request # NoRequest
  /\ verdict = "none"
  /\ LET answer == verifyTrace(request.secret, request.body, request.header)
     IN  /\ verdict' = IF answer.valid THEN "accepted" ELSE "rejected"
         /\ compared' = answer.compared
  /\ UNCHANGED << pc, instr, pending, ws, variant, pushState, currentCommentId, calls >>
  /\ UNCHANGED << request, input, extraction, project, stream, call, inflight >>
  /\ UNCHANGED serverVars
  /\ UNCHANGED execVars
  /\ UNCHANGED commentVars

Extract ==
  /\ project = NoProjectCall
  /\ request = NoRequest
  /\ ~extraction.done
  /\ extraction' = [done   |-> TRUE,
                    ai     |-> extractAIInstructions(input),
                    claude |-> extractClaudeInstructions(input)]
  /\ UNCHANGED << pc, instr, pending, ws, variant, pushState, currentCommentId, calls >>
  /\ UNCHANGED << request, verdict, compared, input, project, stream, call, inflight >>
  /\ UNCHANGED serverVars
  /\ UNCHANGED execVars
  /\ UNCHANGED commentVars

NextUtils == Verify \/ Extract

SpecUtils == InitUtils /\ [][NextUtils]_vars

(* ---------------------------------------------------------------------- *)
(* The methods of ProjectManager on their own: one call, against a git    *)
(* and a file system whose answers are fixed when the call starts         *)
(* ---------------------------------------------------------------------- *)

\* what the message of a failed git.clone can hold: the two phrases
\* cloneProject looks for
BranchNotFound == {"Remote branch", "not found"}
RepositoryNotFound == {"not found"}
AccessDenied == {}
CloneErrors == {BranchNotFound, RepositoryNotFound, AccessDenied}

\* the fallback is taken whenever the message holds the words 'not found'
isBranchNotFound_AnyNotFound(message) == "not found" \in message

\* errorMessage.includes('Remote branch') && errorMessage.includes('not found')
isBranchNotFound(message) == "Remote branch" \in message /\ "not found" \in message

\* prepareProject(project, branch): the answers of the environment
\*   url      the event's project carries a repository URL
\*   clone    git.clone --branch succeeds, or the message of its error
\*   default  the clone of the default ref succeeds
\*   checkout the checkout of the requested branch succeeds
\*   config   git config user.name / user.email succeeds
\*   leaves   a failed clone leaves a partial directory behind
\*   rm       fs.rm succeeds
PrepareCalls ==
  { [op |-> "prepare", step |-> "clone", dir |-> "none", clones |-> 0,
     branch |-> "none", cleanups |-> 0, fallback |-> FALSE,
     ref |-> "none", target |-> "none",
     url |-> u, clone |-> c, default |-> d, checkout |-> k, config |-> g,
     leaves |-> l, rm |-> m] :
      u \in BOOLEAN, c \in {{"ok"}} \cup CloneErrors, d \in BOOLEAN,
      k \in BOOLEAN, g \in BOOLEAN, l \in BOOLEAN, m \in BOOLEAN }

\* what a failed clone leaves of the directory
AfterFailedClone(p) == IF p.leaves THEN "partial" ELSE "none"

\* cloneProject: getAuthenticatedUrl, then git.clone(url, path, --branch)
Clone ==
  /\ project.op = "prepare" /\ project.step = "clone"
  /\ project' =
       IF ~project.url THEN [project EXCEPT !.step = "catch"]
       ELSE IF project.clone = {"ok"}
         THEN [project EXCEPT !.clones = @ + 1, !.dir = "cloned",
                              !.branch = "requested", !.step = "configure"]
       ELSE IF isBranchNotFound(project.clone)
         THEN [project EXCEPT !.clones = @ + 1, !.dir = AfterFailedClone(project),
                              !.fallback = TRUE, !.step = "default"]
       ELSE [project EXCEPT !.clones = @ + 1, !.dir = AfterFailedClone(project),
                            !.step = "catch"]
  /\ UNCHANGED << pc, instr, pending, ws, variant, pushState, currentCommentId, calls >>
  /\ UNCHANGED << request, verdict, compared, input, extraction, stream, call, inflight >>
  /\ UNCHANGED serverVars
  /\ UNCHANGED execVars
  /\ UNCHANGED commentVars

\* the fallback: git.clone(url, path) of the default ref
CloneDefault ==
  /\ project.op = "prepare" /\ project.step = "default"
  /\ project' =
       IF project.default
         THEN [project EXCEPT !.clones = @ + 1, !.dir = "cloned",
                              !.branch = "default", !.step = "checkout"]
         ELSE [project EXCEPT !.clones = @ + 1, !.dir = AfterFailedClone(project),
                              !.step = "catch"]
  /\ UNCHANGED << pc, instr, pending, ws, variant, pushState, currentCommentId, calls >>
  /\ UNCHANGED << request, verdict, compared, input, extraction, stream, call, inflight >>
  /\ UNCHANGED serverVars
  /\ UNCHANGED execVars
  /\ UNCHANGED commentVars

\* the fallback: projectGit.checkout(branch), whose failure is only logged
Checkout ==
  /\ project.op = "prepare" /\ project.step = "checkout"
  /\ project' =
       IF project.checkout
         THEN [project EXCEPT !.branch = "requested", !.step = "configure"]
         ELSE [project EXCEPT !.step = "configure"]
  /\ UNCHANGED << pc, instr, pending, ws, variant, pushState, currentCommentId, calls >>
  /\ UNCHANGED << request, verdict, compared, input, extraction, stream, call, inflight >>
  /\ UNCHANGED serverVars
  /\ UNCHANGED execVars
  /\ UNCHANGED commentVars

\* addConfig user.name / user.email, then prepareProject returns the path
Configure ==
  /\ project.op = "prepare" /\ project.step = "configure"
  /\ project' = [project EXCEPT !.step = IF project.config THEN "returned" ELSE "catch"]
  /\ UNCHANGED << pc, instr, pending, ws, variant, pushState, currentCommentId, calls >>
  /\ UNCHANGED << request, verdict, compared, input, extraction, stream, call, inflight >>
  /\ UNCHANGED serverVars
  /\ UNCHANGED execVars
  /\ UNCHANGED commentVars

\* a catch block that rethrows without cleaning up
PrepareCatch_NoCleanup ==
  /\ project.op = "prepare" /\ project.step = "catch"
  /\ project' = [project EXCEPT !.step = "threw"]
  /\ UNCHANGED << pc, instr, pending, ws, variant, pushState, currentCommentId, calls >>
  /\ UNCHANGED << request, verdict, compared, input, extraction, stream, call, inflight >>
  /\ UNCHANGED serverVars
  /\ UNCHANGED execVars
  /\ UNCHANGED commentVars

\* the catch block of prepareProject: cleanup(projectPath), throw error
PrepareCatch ==
  /\ project.op = "prepare" /\ project.step = "catch"
  /\ project' = [project EXCEPT !.dir = Removed(@, project.rm),
                                !.cleanups = @ + 1, !.step = "threw"]
  /\ UNCHANGED << pc, instr, pending, ws, variant, pushState, currentCommentId, calls >>
  /\ UNCHANGED << request, verdict, compared, input, extraction, stream, call, inflight >>
  /\ UNCHANGED serverVars
  /\ UNCHANGED execVars
  /\ UNCHANGED commentVars

\* a ProjectManager step changes nothing but the call it belongs to
OnlyProject ==
  /\ UNCHANGED << pc, instr, pending, ws, variant, pushState, currentCommentId, calls >>
  /\ UNCHANGED << request, verdict, compared, input, extraction, stream, call, inflight >>
  /\ UNCHANGED serverVars
  /\ UNCHANGED execVars
  /\ UNCHANGED commentVars

\* const baseBranch = instruction.branch || event.project.default_branch:
\* the branch prepareProject was asked for
baseBranch == "requested"

\* handleSuccess of a run with changes, in the workspace prepareProject
\* returned: createBranch(project, claudeBranch, baseBranch) and
\* createMergeRequest({ sourceBranch: claudeBranch, targetBranch: baseBranch })
CreateBranchAndRequest ==
  /\ project.op = "prepare" /\ project.step = "returned"
  /\ project' = [project EXCEPT !.ref = baseBranch, !.target = baseBranch,
                                !.step = "delivered"]
  /\ OnlyProject

\* the git calls of switchToAndPushBranch, in the order they are made
GitCalls == {"checkout", "add", "status", "commit", "push"}

\* switchToAndPushBranch(projectPath, branchName, commitMessage):
\*   files   status.files.length after git add
\*   failAt  the git call that fails, if any
PushCalls ==
  [ op : {"push"}, step : {"checkout"}, files : 0..MaxChanges,
    failAt : GitCalls \cup {"none"}, commits : {0}, pushes : {0},
    upstream : {FALSE} ]

\* a git call of switchToAndPushBranch: on failure the catch block logs
\* and rethrows
GitCall(step, next) ==
  /\ project.op = "push" /\ project.step = step
  /\ project' = [project EXCEPT !.step = IF project.failAt = step THEN "threw" ELSE next]
  /\ OnlyProject

\* git.checkout(['-b', branchName])
SwitchBranch == GitCall("checkout", "add")

\* git.add('.')
Stage == GitCall("add", "status")

\* a stage without files is committed like any other
nothingToCommit_Never(files) == FALSE

\* status.files.length === 0
nothingToCommit(files) == files = 0

\* git.status(), and the return when there is nothing to commit
Status ==
  /\ project.op = "push" /\ project.step = "status"
  /\ project' = [project EXCEPT !.step =
                   IF project.failAt = "status" THEN "threw"
                   ELSE IF nothingToCommit(project.files) THEN "returned"
                   ELSE "commit"]
  /\ OnlyProject

\* git.commit(commitMessage)
Commit ==
  /\ project.op = "push" /\ project.step = "commit"
  /\ project' = [project EXCEPT !.commits = @ + 1,
                                !.step = IF project.failAt = "commit" THEN "threw" ELSE "push"]
  /\ OnlyProject

\* git.push(['-u', 'origin', branchName])
Push ==
  /\ project.op = "push" /\ project.step = "push"
  /\ project' = [project EXCEPT !.pushes = @ + 1, !.upstream = TRUE,
                                !.step = IF project.failAt = "push" THEN "threw" ELSE "returned"]
  /\ OnlyProject

\* one entry of status.files as simple-git reports it: the path, the state
\* of the index and the state of the working tree
StatusCodes ==
  { [index |-> "?", working_dir |-> "?"],      \* untracked
    [index |-> " ", working_dir |-> "M"],      \* modified, not staged
    [index |-> " ", working_dir |-> "D"],      \* deleted, not staged
    [index |-> "D", working_dir |-> " "],      \* deleted and staged (git rm)
    [index |-> "A", working_dir |-> " "],      \* new and staged
    [index |-> "M", working_dir |-> " "] }     \* modified and staged

Paths == {"a.ts", "b.ts"}

StatusEntries ==
  { [path |-> p, index |-> c.index, working_dir |-> c.working_dir] :
      p \in Paths, c \in StatusCodes }

\* number of entries of the statuses that are enumerated
MaxStatusLen == 2

\* getChangedFiles(projectPath): whether git.status() succeeds, and its files
ChangesCalls ==
  { [op |-> "changes", step |-> "status", statusOk |-> ok, files |-> f, ret |-> <<>>] :
      ok \in BOOLEAN, f \in UNION { [1..n -> StatusEntries] : n \in 0..MaxStatusLen } }

\* file.working_dir === '?' ? 'created' : file.working_dir === 'D' ? 'deleted' : 'modified'
TypeOf(file) ==
  IF file.working_dir = "?" THEN "created"
  ELSE IF file.working_dir = "D" THEN "deleted"
  ELSE "modified"

\* status.files.map(...), or [] when git.status() throws
GetChangedFiles ==
  /\ project.op = "changes" /\ project.step = "status"
  /\ project' =
       [project EXCEPT
          !.step = "returned",
          !.ret  = IF project.statusOk
                     THEN [i \in 1..Len(project.files) |->
                             [path |-> project.files[i].path, type |-> TypeOf(project.files[i])]]
                     ELSE <<>>]
  /\ OnlyProject

ProjectCalls == PrepareCalls \cup PushCalls \cup ChangesCalls

InitProject ==
  /\ InitProgram(1..NumRuns, Faulty)
  /\ request = NoRequest
  /\ verdict = "none"
  /\ compared = FALSE
  /\ input = <<>>
  /\ extraction = NoExtraction
  /\ project \in ProjectCalls
  /\ stream = NoStream
  /\ call = NoCall
  /\ inflight = NoWrites

NextProject ==
  \/ Clone \/ CloneDefault \/ Checkout \/ Configure \/ PrepareCatch
  \/ CreateBranchAndRequest
  \/ SwitchBranch \/ Stage \/ Status \/ Commit \/ Push
  \/ GetChangedFiles

SpecProject == InitProject /\ [][NextProject]_vars


(* ---------------------------------------------------------------------- *)
(* One agent run seen from its transport: the messages or events the      *)
(* executor reads, the clock, the progress updates it passes to           *)
(* onProgress and the output text it returns                              *)
(* ---------------------------------------------------------------------- *)

\* the two seconds between streamed updates, in milliseconds
Throttle == 2000

\* the time that passes before the next message, event or chunk arrives
Delays == {0, Throttle, Throttle + 1}

\* number of messages, events or chunks of a run
MaxEvents == 3
MaxLog == 11
MaxTerminals == 2
MaxSends == 3

\* the texts of the agent's messages, and the text of a result field
AgentTexts == {1, 2}
ResultText == 3

\* a stream step changes nothing but the run it belongs to
OnlyStream ==
  /\ UNCHANGED << pc, instr, pending, ws, variant, pushState, currentCommentId, calls >>
  /\ UNCHANGED << request, verdict, compared, input, extraction, project, call, inflight >>
  /\ UNCHANGED serverVars
  /\ UNCHANGED execVars
  /\ UNCHANGED commentVars

\* progressBuffer of the CLI executor: whether it holds text, whether it
\* holds more than 500 characters, and whether extractProgressMessage
\* finds a line to report in it
NoBuffer == [filled |-> FALSE, large |-> FALSE, reportable |-> FALSE]

\* the run when the stream loop starts: the initial update was emitted by
\* executeWithStreaming and lastProgressTime = Date.now()
StreamRuns ==
  { [op |-> v, step |-> "reading", now |-> 0, lastProgressTime |-> 0,
     read |-> <<>>, emitted |-> << [at |-> 0, kind |-> "initial"] >>,
     output |-> <<>>, lastAgentMessage |-> 0,
     progressBuffer |-> NoBuffer, resuming |-> {}] : v \in Variants }

\* SDKMessage of the Claude agent SDK: a system init message, an assistant
\* message (a tool_use block, or a text block that is short enough to be
\* shown or not), a result message with its subtype and result field
ClaudeMessages ==
  { [type |-> "system", subtype |-> "init", tool |-> FALSE, short |-> FALSE, text |-> 0] }
  \cup { [type |-> "assistant", subtype |-> "", tool |-> TRUE, short |-> FALSE, text |-> 0] }
  \cup { [type |-> "assistant", subtype |-> "", tool |-> FALSE, short |-> s, text |-> t] :
           s \in BOOLEAN, t \in AgentTexts }
  \cup { [type |-> "result", subtype |-> "success", tool |-> FALSE, short |-> FALSE, text |-> t] :
           t \in {0, ResultText} }
  \cup { [type |-> "result", subtype |-> "error_during_execution",
          tool |-> FALSE, short |-> FALSE, text |-> 0] }

\* extractProgressFromMessage(message) is not the empty string
extractProgressFromMessage(message) ==
  CASE message.type = "system"    -> message.subtype = "init"
    [] message.type = "assistant" -> message.tool \/ (message.text # 0 /\ message.short)
    [] OTHER                      -> FALSE

\* ThreadEvent of the Codex SDK
CodexEvents ==
  { [type |-> t, item |-> "none", text |-> 0, usage |-> FALSE] :
      t \in {"thread.started", "turn.started", "turn.failed", "error"} }
  \cup { [type |-> "item.completed", item |-> "command_execution", text |-> 0, usage |-> FALSE] }
  \cup { [type |-> "item.completed", item |-> "agent_message", text |-> t, usage |-> FALSE] :
           t \in AgentTexts }
  \cup { [type |-> "turn.completed", item |-> "none", text |-> 0, usage |-> u] :
           u \in BOOLEAN }

\* extractProgressFromEvent(event) is not the empty string
extractProgressFromEvent(e) ==
  CASE e.type \in {"thread.started", "turn.started", "turn.failed", "error"} -> TRUE
    [] e.type = "item.completed" -> e.item = "command_execution"
    [] e.type = "turn.completed" -> e.usage
    [] OTHER -> FALSE

\* event.type === 'turn.completed'
isExempt(type) == type = "turn.completed"

\* now - lastProgressTime > 2000, or the event is exempt
emitsNow(s, now, type) == now - s.lastProgressTime > Throttle \/ isExempt(type)

\* the update of the stream loop: onProgress is called and lastProgressTime
\* is set when there is a progress message and the throttle lets it pass
Throttled(s, now, type, hasMessage) ==
  IF hasMessage /\ emitsNow(s, now, type)
    THEN [s EXCEPT !.now = now, !.lastProgressTime = now,
                   !.emitted = Append(@, [at |-> now, kind |-> type])]
    ELSE [s EXCEPT !.now = now]

\* output += block.text + '\n' for an assistant message; output =
\* String(resultMsg.result) for a successful result with a result text
outputAfter(output, message) ==
  IF message.type = "assistant" /\ message.text # 0 THEN Append(output, message.text)
  ELSE IF message.type = "result" /\ message.subtype = "success" /\ message.text # 0
    THEN << message.text >>
  ELSE output

\* one round of the for-await loop of runClaudeWithSDK; the result message
\* is the last message of the stream
ReadClaudeMessage ==
  /\ stream.op = "claudeSdk" /\ stream.step = "reading"
  /\ Len(stream.read) < MaxEvents
  /\ \E d \in Delays, message \in ClaudeMessages :
       LET s == Throttled(stream, stream.now + d, "stream",
                          extractProgressFromMessage(message))
       IN stream' = [s EXCEPT
            !.read   = Append(@, message),
            !.output = outputAfter(@, message),
            !.step   = IF message.type # "result" THEN "reading"
                       ELSE IF message.subtype = "success" THEN "drained"
                       ELSE "threw"]
  /\ OnlyStream

\* one round of the for-await loop of runCodexWithSDK; turn.completed is
\* the last event of the stream
ReadCodexEvent ==
  /\ stream.op = "codexSdk" /\ stream.step = "reading"
  /\ Len(stream.read) < MaxEvents
  /\ \E d \in Delays, e \in CodexEvents :
       LET s == Throttled(stream, stream.now + d,
                          IF e.type = "turn.completed" THEN e.type ELSE "stream",
                          extractProgressFromEvent(e))
       IN stream' = [s EXCEPT
            !.read = Append(@, e),
            !.lastAgentMessage = IF e.item = "agent_message" THEN e.text ELSE @,
            !.step = IF e.type \in {"turn.failed", "error"} THEN "threw"
                     ELSE IF e.type = "turn.completed" THEN "drained"
                     ELSE "reading"]
  /\ OnlyStream

\* the text written when Codex sent no agent message
Placeholder == 0

\* what the stream loop returns: output.trim() of the Claude executor,
\* lastAgentMessage || 'Codex completed execution.' of the Codex executor,
\* the whole stdout of the CLI executor
Returned(s) ==
  CASE s.op = "claudeSdk" -> s.output
    [] s.op = "codexSdk"  -> << IF s.lastAgentMessage # 0 THEN s.lastAgentMessage
                                ELSE Placeholder >>
    [] OTHER              -> s.output

\* the stream has ended (the CLI process closed with code 0): the updates
\* with the number of changed files and of the completion are emitted and
\* the output is returned
StreamReturn ==
  /\ stream.op # "none"
  /\ IF stream.op = "cli" THEN stream.step = "closed"
     ELSE stream.step \in {"reading", "drained"}
  /\ \E d \in Delays, n \in 0..MaxChanges :
       LET at == stream.now + d
       IN stream' = [stream EXCEPT
            !.now     = at,
            !.step    = "returned",
            !.output  = Returned(stream),
            !.emitted = @ \o (IF n > 0 THEN << [at |-> at, kind |-> "changes"] >> ELSE <<>>)
                          \o << [at |-> at, kind |-> "completed"] >>]
  /\ OnlyStream


\* progressBuffer.length > 500
isSubstantial(buffer) == buffer.large

\* the stdout handler of the CLI executor; it awaits onProgress before it
\* empties the buffer and sets lastProgressTime, so that other handlers run
\* in between
StdoutData ==
  /\ stream.op = "cli" /\ stream.step = "reading"
  /\ Len(stream.read) < MaxEvents
  /\ \E d \in Delays, large \in BOOLEAN, reportable \in BOOLEAN :
       LET now == stream.now + d
           buffer == [filled |-> TRUE, large |-> stream.progressBuffer.large \/ large,
                      reportable |-> reportable]
           elapsed == now - stream.lastProgressTime > Throttle
           s == [stream EXCEPT !.now = now,
                               !.read = Append(@, [type |-> "stdout", large |-> large])]
       IN stream' =
            IF ~(elapsed \/ isSubstantial(buffer))
              THEN [s EXCEPT !.progressBuffer = buffer]
            ELSE IF ~reportable
              THEN [s EXCEPT !.progressBuffer = NoBuffer, !.lastProgressTime = now]
            ELSE [s EXCEPT !.progressBuffer = buffer,
                           !.resuming = @ \cup {now},
                           !.emitted = Append(@, [at |-> now,
                                          kind |-> IF elapsed THEN "stream" ELSE "bulk"])]
  /\ OnlyStream

\* the stdout handler continues after the awaited onProgress:
\* progressBuffer = ''; lastProgressTime = now
StdoutResume ==
  /\ stream.op = "cli"
  /\ \E now \in stream.resuming :
       stream' = [stream EXCEPT !.progressBuffer = NoBuffer,
                                !.lastProgressTime = now,
                                !.resuming = @ \ {now}]
  /\ OnlyStream

\* the stderr handler of the CLI executor: a chunk that is not blank is
\* passed to onProgress at once
StderrData ==
  /\ stream.op = "cli" /\ stream.step = "reading"
  /\ Len(stream.read) < MaxEvents
  /\ \E d \in Delays, blank \in BOOLEAN :
       LET now == stream.now + d
       IN stream' = [stream EXCEPT
            !.now = now,
            !.read = Append(@, [type |-> "stderr", large |-> FALSE]),
            !.emitted = IF blank THEN @ ELSE Append(@, [at |-> now, kind |-> "stderr"])]
  /\ OnlyStream

\* the close handler of the CLI executor: what the buffer still holds is
\* passed to onProgress, then the promise is resolved for exit code 0 and
\* rejected otherwise
StreamClose ==
  /\ stream.op = "cli" /\ stream.step = "reading"
  /\ \E d \in Delays, code0 \in BOOLEAN :
       LET now == stream.now + d
           flush == stream.progressBuffer.filled /\ stream.progressBuffer.reportable
       IN stream' = [stream EXCEPT
            !.now = now,
            !.step = IF code0 THEN "closed" ELSE "threw",
            !.emitted = IF flush THEN Append(@, [at |-> now, kind |-> "flush"]) ELSE @]
  /\ OnlyStream

InitStream ==
  /\ InitProgram(1..NumRuns, Faulty)
  /\ request = NoRequest
  /\ verdict = "none"
  /\ compared = FALSE
  /\ input = <<>>
  /\ extraction = NoExtraction
  /\ project = NoProjectCall
  /\ stream \in StreamRuns
  /\ call = NoCall
  /\ inflight = NoWrites

NextStream ==
  \/ ReadClaudeMessage \/ ReadCodexEvent
  \/ StdoutData \/ StdoutResume \/ StderrData \/ StreamClose
  \/ StreamReturn

SpecStream == InitStream /\ [][NextStream]_vars


(* ---------------------------------------------------------------------- *)
(* One call of handleWebhook up to the verifier, or of postComment /      *)
(* createProgressComment, on enumerated inputs                            *)
(* ---------------------------------------------------------------------- *)

\* a call changes nothing but its own record
OnlyCall ==
  /\ UNCHANGED << pc, instr, pending, ws, variant, pushState, currentCommentId, calls >>
  /\ UNCHANGED << request, verdict, compared, input, extraction, project, stream, inflight >>
  /\ UNCHANGED serverVars
  /\ UNCHANGED execVars
  /\ UNCHANGED commentVars

\* the bytes of a request body: none, two JSON texts, and bytes that are
\* not valid UTF-8
RawBodies == {"", "bodyA", "bodyB", "bytes"}

ContentTypes == {"application/json", "text/plain"}

\* req.body when no body parser took the request: {} or undefined,
\* depending on the version of the parser
Unparsed == {"{}", "undefined"}

\* express.raw({ type: 'application/json' }) on /webhook: the body becomes
\* a Buffer when the content type matches and there is a body
isBuffer(contentType, raw) == contentType = "application/json" /\ raw # ""

\* Buffer.toString('utf8'): invalid sequences are replaced
toStringUtf8(raw) == IF raw = "bytes" THEN "replaced" ELSE raw

\* the first argument of verifyGitLabSignature:
\* req.body instanceof Buffer ? req.body.toString('utf8') : JSON.stringify(req.body)
rawBodyOf(contentType, raw, unparsed) ==
  IF isBuffer(contentType, raw) THEN toStringUtf8(raw) ELSE unparsed

WebhookCalls ==
  { [op |-> "handleWebhook", step |-> "start", contentType |-> c, raw |-> b,
     unparsed |-> u, handed |-> "none"] :
      c \in ContentTypes, b \in RawBodies, u \in Unparsed }

\* handleWebhook up to the call of the verifier
HandBody ==
  /\ call.op = "handleWebhook" /\ call.step = "start"
  /\ call' = [call EXCEPT !.step = "verified",
                          !.handed = rawBodyOf(call.contentType, call.raw, call.unparsed)]
  /\ OnlyCall

\* the message of the error addIssueDiscussionReply and
\* addMergeRequestDiscussionReply throw, as the phrases it holds
ReplyError == {"Failed to add discussion reply", "Discussion reply not yet implemented"}

\* errorMessage.includes('Discussion reply not implemented')
isNotImplemented(message) == "Discussion reply not implemented" \in message

\* the switch of the reply attempt reaches a discussion reply call: for an
\* issue or note event with an issue, for a merge request event
RepliesTo(kind, target) ==
  \/ kind \in {"issue", "note"} /\ target = "issue"
  \/ kind = "merge_request" /\ target = "merge_request"

\* postComment(event, message) and createProgressComment(event, message):
\*   discussion  this.currentDiscussionId is set
\*   flat        how the flat comment call answers
\*   id          the created comment carries an id
CommentCalls ==
  { [op |-> o, step |-> "reply", kind |-> e.object_kind, target |-> e.target,
     discussion |-> d, flat |-> f, id |-> i,
     replies |-> 0, error |-> {}, warned |-> FALSE, flats |-> 0, outcome |-> "none"] :
      o \in {"postComment", "createProgressComment"},
      e \in {x \in Events : WellFormed(x) /\ x.content = <<>>},
      d \in BOOLEAN, f \in {"ok", "throws"}, i \in BOOLEAN }

\* the catch block of the reply attempt: whatever the error, the flat
\* comment follows
AfterReplyError(message) == "flat"

\* the reply attempt: with a discussion id the reply call is made and
\* throws; the catch block logs a warning unless it knows the message
ReplyInDiscussion ==
  /\ call.op \in {"postComment", "createProgressComment"} /\ call.step = "reply"
  /\ call' =
       IF call.discussion /\ RepliesTo(call.kind, call.target)
         THEN [call EXCEPT !.replies = @ + 1,
                           !.error   = ReplyError,
                           !.warned  = ~isNotImplemented(ReplyError),
                           !.step    = AfterReplyError(ReplyError)]
         ELSE [call EXCEPT !.step = "flat"]
  /\ OnlyCall

\* the flat comment: posted, or the call throws; createProgressComment
\* catches the error and returns null, postComment lets it pass
FlatComment ==
  /\ call.op \in {"postComment", "createProgressComment"} /\ call.step = "flat"
  /\ call' =
       IF ~HasCommentTarget([object_kind |-> call.kind, target |-> call.target])
         THEN [call EXCEPT !.step = "returned",
                           !.outcome = IF call.op = "postComment" THEN "nothing" ELSE "null"]
       ELSE IF call.flat = "ok"
         THEN [call EXCEPT !.flats = @ + 1, !.step = "returned",
                           !.outcome = IF call.op = "postComment" THEN "posted"
                                       ELSE IF call.id THEN "id" ELSE "null"]
       ELSE [call EXCEPT !.flats = @ + 1,
                         !.step = IF call.op = "postComment" THEN "threw" ELSE "returned",
                         !.outcome = IF call.op = "postComment" THEN "error" ELSE "null"]
  /\ OnlyCall

\* no comment body
NoBody == [marker |-> FALSE, entries |-> <<>>, banner |-> "none"]

\* the body updateProgressComment builds: the recent entries of the log
\* and the banner
Rendered(msgs, banner) == [marker |-> FALSE, entries |-> Recent(msgs), banner |-> banner]

\* the fallback comment is the body as it is
Marked_Plain(body) == body

\* `**Updated Progress:**\n\n${body}`
Marked(body) == [body EXCEPT !.marker = TRUE]

\* the logs a run can hold when an update is reported
LogsBefore == { <<>>, << Msg(1, 1) >>, << Msg(1, 1), Msg(1, 2) >> }

\* updateProgressComment(event, message, isComplete, isError):
\*   id      this.currentCommentId is set
\*   log     this.progressMessages
\*   update  how the update of the comment by id answers
\*   flat    how the comment API answers the fallback comment
UpdateCalls ==
  { [op |-> "updateProgressComment", step |-> "update", id |-> i, log |-> l,
     text |-> t, isComplete |-> c, isError |-> e, update |-> u, flat |-> f,
     body |-> NoBody, written |-> NoBody, fallback |-> NoBody,
     logged |-> 0, outcome |-> "none"] :
      i \in BOOLEAN, l \in LogsBefore, t \in 1..3, c \in BOOLEAN, e \in BOOLEAN,
      u \in {"ok", "throws"}, f \in {"ok", "throws"} }

\* updateProgressComment up to the answer of updateComment's API call:
\* without a comment id it returns; otherwise the message is pushed, the
\* body built and the comment updated by id, or the failure logged
UpdateById ==
  /\ call.op = "updateProgressComment" /\ call.step = "update"
  /\ call' =
       IF ~call.id THEN [call EXCEPT !.step = "returned", !.outcome = "returned"]
       ELSE LET msgs == Pushed(call.log, 1, call.text)
                body == Rendered(msgs, Banner(call.isComplete, call.isError))
            IN  IF call.update = "ok"
                  THEN [call EXCEPT !.log = msgs, !.body = body, !.written = body,
                                    !.step = "returned", !.outcome = "returned"]
                  ELSE [call EXCEPT !.log = msgs, !.body = body, !.logged = @ + 1,
                                    !.step = "fallback"]
  /\ OnlyCall

\* the catch block of updateComment posts the fallback comment; when that
\* throws, the catch block of updateProgressComment logs the error
PostFallback ==
  /\ call.op = "updateProgressComment" /\ call.step = "fallback"
  /\ call' =
       IF call.flat = "ok"
         THEN [call EXCEPT !.fallback = Marked(call.body),
                           !.step = "returned", !.outcome = "returned"]
         ELSE [call EXCEPT !.logged = @ + 1,
                           !.step = "returned", !.outcome = "returned"]
  /\ OnlyCall

Calls == WebhookCalls \cup CommentCalls \cup UpdateCalls

InitCalls ==
  /\ InitProgram(1..NumRuns, Faulty)
  /\ request = NoRequest
  /\ verdict = "none"
  /\ compared = FALSE
  /\ input = <<>>
  /\ extraction = NoExtraction
  /\ project = NoProjectCall
  /\ stream = NoStream
  /\ inflight = NoWrites
  /\ call \in Calls

NextCalls == HandBody \/ ReplyInDiscussion \/ FlatComment \/ UpdateById \/ PostFallback

SpecCalls == InitCalls /\ [][NextCalls]_vars


(* ---------------------------------------------------------------------- *)
(* The progress log of one run that reports one status text after the     *)
(* other                                                                  *)
(* ---------------------------------------------------------------------- *)

\* executeInstruction after createProgressComment returned an id
InitLog ==
  /\ pc = [r \in 1..NumRuns |-> IF r = 1 THEN "exec" ELSE "idle"]
  /\ auth = [r \in 1..NumRuns |-> IF r = 1 THEN "valid" ELSE "none"]
  /\ event = [r \in 1..NumRuns |-> IF r = 1 THEN IssueEvent ELSE NoEvent]
  /\ status = [r \in 1..NumRuns |-> IF r = 1 THEN 200 ELSE 0]
  /\ invoked = [r \in 1..NumRuns |-> r = 1]
  /\ instr = [r \in 1..NumRuns |->
                IF r = 1 THEN extractInstruction(IssueEvent) ELSE NoInstruction]
  /\ pending = [r \in 1..NumRuns |-> FALSE]
  /\ ws = [r \in 1..NumRuns |-> IF r = 1 THEN "exists" ELSE "none"]
  /\ variant = [r \in 1..NumRuns |-> ExecutorOfProcessor]
  /\ epc = [r \in 1..NumRuns |-> IF r = 1 THEN "stream" ELSE "idle"]
  /\ timerArmed = [r \in 1..NumRuns |-> FALSE]
  /\ timedOut = [r \in 1..NumRuns |-> FALSE]
  /\ procAlive = [r \in 1..NumRuns |-> r = 1]
  /\ isAbortError = [r \in 1..NumRuns |-> FALSE]
  /\ streamed = [r \in 1..NumRuns |-> 0]
  /\ result = [r \in 1..NumRuns |-> NoResult]
  /\ pushState = [r \in 1..NumRuns |-> "none"]
  /\ currentCommentId = 1
  /\ progressMessages = <<>>
  /\ comments = [c \in 1..NumRuns |->
                   IF c = 1 THEN [NoComment EXCEPT !.exists = TRUE, !.banner = "initial"]
                   ELSE NoComment]
  /\ posted = [r \in 1..NumRuns |-> NoPosts]
  /\ calls = [r \in 1..NumRuns |->
                IF r = 1 THEN Bumped(NoCalls, {"createProgressComment", "prepareProject"})
                ELSE NoCalls]
  /\ request = NoRequest
  /\ verdict = "none"
  /\ compared = FALSE
  /\ input = <<>>
  /\ extraction = NoExtraction
  /\ project = NoProjectCall
  /\ stream = NoStream
  /\ call = NoCall
  /\ inflight = NoWrites
  /\ env = Faulty

\* the texts a run reports, numbered in the order they are first reported:
\* the next new text, or one reported before
ReportedTexts == 1..(IF Len(progressMessages) < MaxLog THEN Len(progressMessages) + 1
                     ELSE MaxLog)

\* one call of updateProgressComment that has run to its end
Report ==
  /\ \E u \in ReportedTexts, isComplete \in BOOLEAN, isError \in BOOLEAN, api \in ApiOutcomes :
       /\ isComplete => comments[1].terminals < MaxTerminals
       /\ updateProgressComment(1, [t |-> "stream", u |-> u], isComplete, isError, api)
  /\ UNCHANGED << pc, instr, pending, ws, variant, pushState, currentCommentId, calls >>
  /\ UNCHANGED serverVars
  /\ UNCHANGED execVars
  /\ UNCHANGED utilVars

NextLog == Report

SpecLog == InitLog /\ [][NextLog]_vars


(* ---------------------------------------------------------------------- *)
(* The progress updates of one run whose callers do not wait for one      *)
(* another: the data handlers of the agent process and the timeout        *)
(* handler call updateProgressComment while an earlier call still awaits  *)
(* the comment API                                                        *)
(* ---------------------------------------------------------------------- *)

\* the harness leaves the rest of the run alone
OnlyComment ==
  /\ UNCHANGED << pc, instr, pending, ws, variant, pushState, currentCommentId, calls >>
  /\ UNCHANGED << request, verdict, compared, input, extraction, project, stream, call >>
  /\ UNCHANGED serverVars
  /\ UNCHANGED execVars
  /\ UNCHANGED posted

\* updateProgressComment up to its await: the message is pushed to the
\* log, the body is built and the update of the comment is sent
SendUpdate ==
  /\ inflight.sent < MaxSends
  /\ \E u \in ReportedTexts, isComplete \in BOOLEAN, isError \in BOOLEAN :
       LET msgs   == Pushed(progressMessages, 1, [t |-> "stream", u |-> u])
           banner == Banner(isComplete, isError)
       IN  /\ progressMessages' = msgs
           /\ inflight' = [sent   |-> inflight.sent + 1,
                           writes |-> inflight.writes \cup
                                        {[seq |-> inflight.sent + 1, msgs |-> msgs,
                                          banner |-> banner]},
                           banner |-> banner]
  /\ UNCHANGED comments
  /\ OnlyComment

\* the comment API applies one of the updates that are on their way
ApplyUpdate ==
  /\ \E w \in inflight.writes :
       /\ comments' = [comments EXCEPT ![1] = Written(@, w.msgs, w.banner)]
       /\ inflight' = [inflight EXCEPT !.writes = @ \ {w}]
  /\ UNCHANGED progressMessages
  /\ OnlyComment

NextFlight == SendUpdate \/ ApplyUpdate

SpecFlight == InitLog /\ [][NextFlight]_vars

(* ---------------------------------------------------------------------- *)
(* Properties                                                             *)
(* ---------------------------------------------------------------------- *)

\* prepareProject returned a workspace path to the run
Prepared(r) == calls[r].prepareProject = 1 /\ calls[r].prepareFailed = 0

\* the run's event has an issue or merge request to comment on
Commentable(r) == HasCommentTarget(event[r])

\* the final outcome comments the run posted
Finals(r) == Len(posted[r].final)

\* C1: when the timeout timer of a run fired during executeWithStreaming,
\* onError has been invoked at most once for that run (the timeout signal
\* only).  Checked under SpecExec, which runs all three executors.
C1_OneErrorSignalPerTimeout ==
  \A r \in Runs : timedOut[r] => calls[r].onError <= 1

\* C2 as stated: when processEvent has returned for a run to which
\* prepareProject returned a path, the directory does not exist.
C2_WorkspaceGone ==
  \A r \in Runs : pc[r] = "done" /\ Prepared(r) => ws[r] = "removed"

\* C2, amended: when processEvent has returned for a run to which
\* prepareProject returned a path, cleanup has been called once, and the
\* directory is gone unless that one removal failed.
C2_WorkspaceGoneUnlessRemovalFailed ==
  \A r \in Runs :
    pc[r] = "done" /\ Prepared(r) =>
      /\ calls[r].cleanup = 1
      /\ \/ ws[r] = "removed" /\ calls[r].rmFailed = 0
         \/ ws[r] = "exists" /\ calls[r].rmFailed = 1

\* a run that timed out has returned and its workspace is removed
C2_Witness ==
  \E r \in Runs :
    pc[r] = "done" /\ Prepared(r) /\ timedOut[r] /\ ws[r] = "removed"

\* C3: cleanup is never called more often than prepareProject, it has been
\* called exactly once for the one prepareProject call when the run is
\* over, whatever the outcome, and it is never called before the run's
\* push has settled.
C3_CleanupOncePerPrepare ==
  \A r \in Runs :
    /\ calls[r].cleanup <= calls[r].prepareProject
    /\ calls[r].prepareProject <= 1
    /\ pc[r] = "done" => calls[r].cleanup = calls[r].prepareProject
    /\ calls[r].cleanup > 0 => pushState[r] # "inFlight"
    /\ pushState[r] = "inFlight" => ws[r] = "exists"

\* a run whose push succeeded and whose final comment could not be posted
\* is over, with one cleanup
C3_Witness ==
  \E r \in Runs :
    /\ pc[r] = "done" /\ pushState[r] = "done" /\ calls[r].postThrew > 0
    /\ calls[r].cleanup = 1

\* C4: a progress comment is rendered with a terminal banner at most once,
\* and never in the processing state after a terminal banner.
C4_TerminalBannerOnce ==
  \A c \in DOMAIN comments :
    comments[c].terminals <= 1 /\ ~comments[c].reopened

\* C5 as stated: a run with an accepted instruction that is over has posted
\* exactly one final outcome comment.
C5_ExactlyOneFinalComment ==
  \A r \in Runs : pc[r] = "done" /\ instr[r].found => Finals(r) = 1

\* C5, amended: a run with an accepted instruction never posts more than
\* one final outcome comment, and when it is over it has posted one unless
\* the event has no issue or merge request or an attempt to post it failed.
C5_AtMostOneFinalComment ==
  \A r \in Runs :
    /\ Finals(r) <= 1
    /\ pc[r] = "done" /\ instr[r].found /\ Commentable(r)
         /\ calls[r].postThrew = 0 => Finals(r) = 1
    /\ pc[r] = "done" /\ calls[r].postThrew = 1 /\ calls[r].reportError = 1
         /\ calls[r].prepareFailed = 0 => posted[r].final = <<"internal">>

\* a run whose workspace preparation failed is over and has posted the
\* internal error comment, its only final comment
C5_Witness ==
  \E r \in Runs :
    /\ pc[r] = "done" /\ instr[r].found /\ calls[r].prepareFailed = 1
    /\ posted[r].final = <<"internal">>

\* C6: every entry of a progress comment's body was reported by the run
\* that created the comment.  Checked under SpecShared, where two runs are
\* in flight together.
C6_OwnMessagesOnly ==
  \A c \in DOMAIN comments :
    \A i \in 1..Len(comments[c].entries) : comments[c].entries[i].run = c

\* C7: a run that created a progress comment and whose workspace
\* preparation failed ends with the comment rendered with a terminal banner.
C7_TerminalBannerAtEnd ==
  \A r \in Runs :
    pc[r] = "done" /\ comments[r].exists /\ calls[r].prepareFailed = 1
      => comments[r].terminals >= 1

\* C8 as stated: a successful agent run without changed files creates no
\* branch and no merge request and posts exactly one final comment.
C8_NoChangesOneComment ==
  \A r \in Runs :
    pc[r] = "done" /\ result[r].returned /\ result[r].success
      /\ result[r].changes = 0
      => /\ calls[r].createBranch = 0
         /\ calls[r].createMergeRequest = 0
         /\ Finals(r) = 1

\* C8, amended: a successful agent run without changed files never creates
\* a branch or a merge request and never starts a push; it posts at most
\* one final comment, and exactly one, the success comment, when the event
\* has an issue or merge request and posting it does not fail.
C8_NoChangesNoPublish ==
  \A r \in Runs :
    result[r].returned /\ result[r].success /\ result[r].changes = 0
      => /\ calls[r].createBranch = 0
         /\ calls[r].createMergeRequest = 0
         /\ pushState[r] = "none"
         /\ Finals(r) <= 1
         /\ pc[r] = "done" /\ Commentable(r) /\ calls[r].postThrew = 0
              => posted[r].final = <<"success">>

\* a successful run without changes is over and has posted the success
\* comment
C8_Witness ==
  \E r \in Runs :
    /\ pc[r] = "done" /\ result[r].returned /\ result[r].success
    /\ result[r].changes = 0 /\ posted[r].final = <<"success">>

\* C9: a run whose extraction yielded no instruction is over at once and
\* leaves no trace: no progress comment, no posted comment, no workspace, no
\* call of prepareProject, of the agent or of reportError.
C9_NoInstructionIsSilent ==
  \A r \in Runs :
    invoked[r] /\ pc[r] # "extract" /\ ~instr[r].found
      => /\ pc[r] = "done"
         /\ ~comments[r].exists
         /\ posted[r] = NoPosts
         /\ ws[r] = "none"
         /\ epc[r] = "idle"
         /\ calls[r] = NoCalls
         /\ currentCommentId # r

\* a request whose text mentions the agent without a command has been
\* processed
C9_Witness ==
  \E r \in Runs :
    /\ pc[r] = "done" /\ ~instr[r].found
    /\ event[r].object_kind = "note" /\ event[r].content = <<"@claude", Ws>>

C12_WorkNotDiscarded ==
  \A r \in Runs :
    pc[r] = "done" /\ result[r].returned /\ Publishes(result[r])
      => pushState[r] = "done" \/ ws[r] = "exists"

\* C13: a run whose agent succeeded never reaches reportError, whatever the
\* comment API does: a failed comment call causes no internal error report.
C13_CommentFailureOnlyLogged ==
  \A r \in Runs :
    result[r].returned /\ result[r].success
      => pc[r] # "report" /\ calls[r].reportError = 0

\* C14: within one run the agent is started at most once, the branch is
\* created at most once, the push is attempted at most once and the merge
\* request is created at most once; after a failed stage the later stages
\* are not attempted: no publishing after a failed agent run, no push
\* without a created branch, no merge request after a failed push.
C14_NoStageRetried ==
  \A r \in Runs :
    /\ calls[r].agent <= 1
    /\ calls[r].createBranch <= 1
    /\ calls[r].push <= 1
    /\ calls[r].createMergeRequest <= 1
    /\ result[r].returned /\ ~result[r].success
         => calls[r].createBranch = 0 /\ calls[r].push = 0
    /\ calls[r].push <= calls[r].createBranch
    /\ calls[r].createMergeRequest <= calls[r].push
    /\ pushState[r] = "failed" => calls[r].createMergeRequest = 0

\* a run whose push failed is over: the push was attempted once
C14_Witness ==
  \E r \in Runs :
    /\ pc[r] = "done" /\ pushState[r] = "failed"
    /\ calls[r].push = 1 /\ calls[r].agent = 1

\* C15: an exception that leaves executeInstruction (a failed
\* prepareProject, a failed final postComment) is caught by processEvent:
\* the run goes through reportError and ends; and whatever failed in one
\* run, every run that is not over can take its next step.
C15_EveryErrorCaught ==
  \A r \in Runs :
    /\ pc[r] \in {"idle", "answered", "extract", "start", "creating", "prepare",
                  "exec", "push", "pushing", "mr", "post", "cleanup", "report",
                  "done"}
    /\ pending[r] => pc[r] \in {"cleanup", "report", "done"}
    /\ pc[r] = "done" /\ (pending[r] \/ calls[r].prepareFailed = 1)
         => calls[r].reportError = 1
    /\ pc[r] \notin {"idle", "answered", "done"} => ENABLED Request(r)

\* one run ended in reportError after its final comment could not be
\* posted, while another run is inside the agent execution
C15_Witness ==
  \E r, q \in Runs :
    /\ r # q
    /\ pc[r] = "done" /\ pending[r] /\ calls[r].reportError = 1
    /\ pc[q] = "exec" /\ epc[q] = "running"

\* the header is 'sha256=' followed by exactly the string digest('hex') gives
IsDigestHeader(req) ==
  req.header = <<Sha256Prefix>> \o HmacHex(req.secret, req.body)

\* the header is 'sha256=' followed by hexadecimal digits, in either letter
\* case, that have the values of the digits of the digest
IsDigestHeaderByValue(req) ==
  LET expected == HmacHex(req.secret, req.body)
  IN  /\ Len(req.header) = Len(expected) + 1
      /\ req.header[1] = Sha256Prefix
      /\ \A i \in 1..Len(expected) :
           HexValue(req.header[i + 1]) = HexValue(expected[i])

\* C16 (as stated): the verifier accepts exactly when a secret is
\* configured, the header is not empty, and the header is the secret
\* verbatim or 'sha256=' followed by the hex digest of the body.
C16_AcceptsExactlyTokenOrDigest ==
  verdict # "none" =>
    ( verdict = "accepted" <=>
        /\ request.header # <<>>
        /\ request.secret # <<>>
        /\ request.header = request.secret \/ IsDigestHeader(request) )

\* C16 (amended): as above, with the digits after 'sha256=' compared by
\* their hexadecimal value, so that a digest written with upper-case
\* letters is accepted too; every other header, an empty header, an
\* unconfigured secret and the digest of another body are rejected.
C16_AcceptsTokenOrDigestByValue ==
  verdict # "none" =>
    ( verdict = "accepted" <=>
        /\ request.header # <<>>
        /\ request.secret # <<>>
        /\ request.header = request.secret \/ IsDigestHeaderByValue(request) )

\* the verifier accepted a digest that is not the string digest('hex') gives
C16_Witness ==
  /\ verdict = "accepted"
  /\ request.header # request.secret
  /\ IsDigestHeaderByValue(request)
  /\ ~IsDigestHeader(request)

\* tokens made of word characters: directly after '@claude' they make it
\* the name of somebody else
Words == {"fix", "word", "other"}

\* position of the first provider mention of a text (0: none)
FirstMention(t) ==
  LET at == { i \in 1..Len(t) :
                t[i] \in Mentions /\ (i < Len(t) => t[i + 1] \notin Words) }
  IN  IF at = {} THEN 0 ELSE CHOOSE i \in at : \A j \in at : i <= j

\* the parameter block that immediately follows the first mention ("": none)
BlockAfter(t) ==
  LET i == FirstMention(t)
  IN  IF i > 0 /\ i < Len(t) /\ t[i + 1] \in Blocks THEN t[i + 1] ELSE ""

\* position where the whitespace after the first mention and its block starts
SpaceStart(t) == FirstMention(t) + (IF BlockAfter(t) = "" THEN 1 ELSE 2)

\* position of the first token after that whitespace (Len(t) + 1: none)
BodyStart(t) ==
  LET from == { k \in SpaceStart(t)..Len(t) : ~IsSpace(t[k]) }
  IN  IF from = {} THEN Len(t) + 1 ELSE CHOOSE k \in from : \A j \in from : k <= j

\* position of the next @word at or after the body start (Len(t) + 1: none)
BodyStop(t) ==
  LET stops == { k \in BodyStart(t)..Len(t) : t[k] \in AtWords }
  IN  IF stops = {} THEN Len(t) + 1 ELSE CHOOSE k \in stops : \A j \in stops : k <= j

\* position of the last token of the body that is not whitespace
BodyEnd(t) ==
  LET inside == { k \in BodyStart(t)..(BodyStop(t) - 1) : ~IsSpace(t[k]) }
  IN  IF inside = {} THEN BodyStart(t) - 1
      ELSE CHOOSE k \in inside : \A j \in inside : k >= j

\* the first mention is followed, after an optional block, by whitespace
FollowedBySpace(t) ==
  /\ FirstMention(t) > 0
  /\ SpaceStart(t) <= Len(t)
  /\ IsSpace(t[SpaceStart(t)])

\* ... and by a body that is not empty
HasMentionAndBody(t) == FollowedBySpace(t) /\ BodyEnd(t) >= BodyStart(t)

\* the parameters of a block that have a key, a value and the given key name
PairsOf(b, name) ==
  IF b = "" THEN {}
  ELSE { i \in 1..Len(BlockParts[b]) :
           /\ Len(BlockParts[b][i]) >= 2
           /\ BlockParts[b][i][1] # ""
           /\ BlockParts[b][i][2] # <<>>
           /\ LowerKey(BlockParts[b][i][1]) = name }

LastOf(S) == CHOOSE i \in S : \A j \in S : i >= j

ModelOf(b) ==
  IF PairsOf(b, "model") = {} THEN <<>>
  ELSE BlockParts[b][LastOf(PairsOf(b, "model"))][2]

\* the timeout parameters of a block whose value is digits throughout
NumericTimeouts(b) ==
  { i \in PairsOf(b, "timeout") : LeadingDigits(BlockParts[b][i][2]) = BlockParts[b][i][2] }

\* the timeout parameters of a block whose value starts with a digit
LeadingNumberTimeouts(b) ==
  { i \in PairsOf(b, "timeout") : LeadingDigits(BlockParts[b][i][2]) # <<>> }

TimeoutOf(b, pairs) ==
  IF pairs = {} THEN <<>>
  ELSE <<DecimalValue(LeadingDigits(BlockParts[b][LastOf(pairs)][2]))>>

Expected(t, timeout) ==
  [found    |-> TRUE,
   provider |-> IF t[FirstMention(t)] \in {"@claude", "@Claude"} THEN "claude" ELSE "codex",
   model    |-> ModelOf(BlockAfter(t)),
   timeout  |-> timeout,
   command  |-> SubSeq(t, BodyStart(t), BodyEnd(t))]

\* C17 (as stated): for a text whose first mention is followed by an
\* optional block, whitespace and a body, the result has the lower-case
\* provider, the model and timeout of the recognized keys, a timeout only
\* when its value is a number, and as command the body up to the next
\* @word or the end, trimmed, inner line breaks kept.
C17_FirstMentionParsed ==
  extraction.done /\ HasMentionAndBody(input) =>
    extraction.ai =
      Expected(input, TimeoutOf(BlockAfter(input), NumericTimeouts(BlockAfter(input))))

\* C17 (amended): as above, but the timeout is the number written by the
\* leading digits of the value ('20min' gives 20); it is dropped only when
\* the value does not start with a digit.
C17_FirstMentionParsedLeadingDigits ==
  extraction.done /\ HasMentionAndBody(input) =>
    extraction.ai =
      Expected(input, TimeoutOf(BlockAfter(input), LeadingNumberTimeouts(BlockAfter(input))))

\* a mention in capitals with model and timeout, and a body of several
\* lines that ends before a later mention
C17_Witness ==
  /\ extraction.done
  /\ HasMentionAndBody(input)
  /\ BlockAfter(input) = "[model=m1,timeout=20]"
  /\ extraction.ai.provider = "claude" /\ input[FirstMention(input)] = "@Claude"
  /\ extraction.ai.model = <<"m", "1">> /\ extraction.ai.timeout = <<20>>
  /\ extraction.ai.command = <<"fix", Nl, "word">>
  /\ BodyStop(input) <= Len(input)

\* C18: when a text holds a provider mention and an instruction is
\* returned, provider, model, timeout and command are those of the first
\* mention: no later mention is used in its place or adds to the command.
C18_OnlyFirstMentionHonored ==
  extraction.done /\ FirstMention(input) > 0 /\ extraction.ai.found =>
    extraction.ai =
      Expected(input, TimeoutOf(BlockAfter(input), LeadingNumberTimeouts(BlockAfter(input))))

PublishedInOrder(r) ==
  /\ calls[r].createBranch > 0
       => result[r].returned /\ result[r].success /\ result[r].changes > 0
  /\ calls[r].push > 0 => calls[r].branchCreated = 1
  /\ calls[r].createMergeRequest > 0 => pushState[r] = "done"
  /\ pushState[r] = "failed"
       => calls[r].createMergeRequest = 0 /\ calls[r].mrCreated = 0
  /\ Finals(r) > 0 => pc[r] \in {"cleanup", "report", "done"}
  /\ posted[r].mrLink => calls[r].mrCreated = 1 /\ posted[r].final = <<"success">>

\* C20 (as stated): a successful run with changes creates the branch,
\* pushes, creates the merge request and posts the final comment in this
\* order, each step after the previous one succeeded, never a merge request
\* after a failed push; a run that created its merge request ends with one
\* final comment, which holds the link of the merge request.
C20_PublishThenLinkPosted ==
  \A r \in Runs :
    /\ PublishedInOrder(r)
    /\ pc[r] = "done" /\ calls[r].mrCreated = 1
         => posted[r].final = <<"success">> /\ posted[r].mrLink

\* C20 (amended): the same order; a run that created its merge request
\* posts at most one final comment, and it ends with the success comment
\* holding the link when the event has an issue or merge request and
\* posting the comment does not fail.
C20_PublishThenLinkPostedIfDelivered ==
  \A r \in Runs :
    /\ PublishedInOrder(r)
    /\ Finals(r) <= 1
    /\ pc[r] = "done" /\ calls[r].mrCreated = 1 /\ Commentable(r)
         /\ calls[r].postThrew = 0
         => posted[r].final = <<"success">> /\ posted[r].mrLink
    /\ pc[r] = "done" /\ calls[r].mrCreated = 1 /\ calls[r].postThrew > 0
         => ~posted[r].mrLink

\* a run went through all four steps and its final comment holds the link
C20_Witness ==
  \E r \in Runs :
    /\ pc[r] = "done"
    /\ calls[r].branchCreated = 1 /\ pushState[r] = "done" /\ calls[r].mrCreated = 1
    /\ posted[r].final = <<"success">> /\ posted[r].mrLink

\* the agent an executor drives
AgentOf(v) == IF v = "codexSdk" THEN "codex" ELSE "claude"

\* C21: when executeWithStreaming has been entered for a run, the executor
\* that serves the run drives the agent named by the mention the
\* instruction was extracted from.
C21_MentionSelectsExecutor ==
  \A r \in Runs :
    epc[r] # "idle" =>
      AgentOf(variant[r]) = extractAIInstructions(event[r].content).provider

\* C23: for a header 'sha256=<x>' that is not the secret, with <x> of
\* another length than the expected hex digest, the verifier answers false
\* and has not called timingSafeEqual.
C23_LengthMismatchNotCompared ==
  /\ verdict # "none"
  /\ request.secret # <<>>
  /\ request.header # request.secret
  /\ startsWithSha256(request.header)
  /\ Len(request.header) - 1 # Len(HmacHex(request.secret, request.body))
  => verdict = "rejected" /\ ~compared

\* a header one digit longer than the digest was rejected uncompared
C23_Witness ==
  /\ verdict = "rejected" /\ ~compared
  /\ request.secret # <<>>
  /\ startsWithSha256(request.header)
  /\ Len(request.header) - 1 > Len(HmacHex(request.secret, request.body))

\* a call of prepareProject is over
PrepareOver == project.op = "prepare" /\ project.step \in {"returned", "threw"}

\* C22 (as stated): when prepareProject throws, cleanup was called on the
\* workspace path, no path was returned, and no directory is left.
C22_FailedPrepareLeavesNothing ==
  project.op = "prepare" /\ project.step = "threw"
    => project.cleanups = 1 /\ project.dir \in {"none", "removed"}

\* C22 (amended): when prepareProject throws, cleanup was called once on
\* the workspace path before the error left, no path was returned, and no
\* directory is left unless the removal itself failed.
C22_FailedPrepareCleansUp ==
  /\ project.op = "prepare" /\ project.step = "threw"
       => /\ project.cleanups = 1
          /\ project.rm => project.dir \in {"none", "removed"}
  /\ project.op = "prepare" /\ project.step = "returned"
       => project.cleanups = 0 /\ project.dir = "cloned"
  /\ project.op = "prepare" /\ project.cleanups > 0 => project.step = "threw"

\* the fallback clone failed too, left a partial directory, and the
\* directory was removed before the error propagated
C22_Witness ==
  /\ project.op = "prepare" /\ project.step = "threw"
  /\ project.fallback /\ project.clones = 2 /\ project.leaves
  /\ project.dir = "removed"

\* C27: the second clone is attempted only after a clone error that names
\* the remote branch as not found; any other clone error makes prepare
\* throw after one clone; in the fallback the failure of the checkout does
\* not make prepare throw.
C27_FallbackOnlyForMissingBranch ==
  /\ project.op = "prepare" /\ (project.clones = 2 \/ project.fallback)
       => project.url /\ project.clone = BranchNotFound
  /\ PrepareOver /\ project.url /\ project.clone \in CloneErrors \ {BranchNotFound}
       => project.step = "threw" /\ project.clones = 1 /\ ~project.fallback
  /\ PrepareOver /\ project.fallback /\ project.default /\ project.config
       => project.step = "returned"
  /\ PrepareOver /\ project.fallback /\ project.step = "returned"
       => project.branch = (IF project.checkout THEN "requested" ELSE "default")

\* prepare returned the path after the fallback although the requested
\* branch could not be checked out
C27_Witness ==
  /\ project.op = "prepare" /\ project.step = "returned"
  /\ project.clones = 2 /\ ~project.checkout /\ project.branch = "default"

\* switchToAndPushBranch is over: it returned or threw
PushOver == project.op = "push" /\ project.step \in {"returned", "threw"}

\* C28: switchToAndPushBranch commits and pushes with upstream tracking
\* exactly when the status after staging has files: a commit or a push is
\* only ever attempted with a non-empty stage, a call that returns has
\* committed and pushed once if the stage was non-empty and not at all if
\* it was empty, and once the status was read an empty stage cannot make
\* the call throw.
C28_CommitAndPushIffStaged ==
  /\ project.op = "push" /\ (project.commits > 0 \/ project.pushes > 0)
       => project.files > 0
  /\ project.op = "push" /\ project.pushes > 0
       => project.commits = 1 /\ project.upstream /\ project.failAt # "commit"
  /\ project.op = "push" /\ project.step = "returned"
       => IF project.files = 0
            THEN project.commits = 0 /\ project.pushes = 0 /\ ~project.upstream
            ELSE project.commits = 1 /\ project.pushes = 1 /\ project.upstream
  /\ PushOver /\ project.files = 0
       /\ project.failAt \notin {"checkout", "add", "status"}
       => project.step = "returned"

\* the call returned with an empty stage although the commit would have
\* failed, without committing or pushing
C28_Witness ==
  /\ project.op = "push" /\ project.step = "returned"
  /\ project.files = 0 /\ project.failAt = "commit"
  /\ project.commits = 0 /\ project.pushes = 0

\* what an entry of the status is: an untracked file, a tracked file that
\* was deleted (in the working tree or, staged, in the index), or another
\* change
KindOf(file) ==
  IF file.index = "?" /\ file.working_dir = "?" THEN "created"
  ELSE IF "D" \in {file.index, file.working_dir} THEN "deleted"
  ELSE "modified"

\* C30: getChangedFiles returns one element per status entry, with the
\* entry's path, classified 'created' for an untracked file, 'deleted' for
\* a tracked file that was deleted and 'modified' for every other change.
C30_ClassifiesEveryEntry ==
  project.op = "changes" /\ project.step = "returned" /\ project.statusOk
    => /\ Len(project.ret) = Len(project.files)
       /\ \A i \in 1..Len(project.files) :
            /\ project.ret[i].path = project.files[i].path
            /\ project.ret[i].type = KindOf(project.files[i])

\* C29: a removal that fails in cleanup is not raised: the run reaches the
\* catch block of processEvent only because preparing the project failed
\* or because publishing the outcome threw, so after a failed removal the
\* run still ends with the comment of its own outcome.
C29_CleanupNeverRaises ==
  \A r \in DOMAIN pc :
    /\ pc[r] = "report" \/ calls[r].reportError > 0
         => calls[r].prepareFailed > 0 \/ pending[r]
    /\ pc[r] = "done" /\ calls[r].rmFailed > 0 /\ calls[r].prepareFailed = 0
         /\ calls[r].postThrew = 0 /\ Commentable(r)
         => posted[r].final = <<OutcomeComment(result[r])>>

\* the removal failed after a successful run, and the run ended with its
\* success comment and without the internal-error report
C29_Witness ==
  \E r \in DOMAIN pc :
    /\ pc[r] = "done" /\ calls[r].rmFailed = 1 /\ ws[r] = "exists"
    /\ result[r].success /\ posted[r].final = <<"success">>
    /\ calls[r].reportError = 0

\* C26: when the transport ends with a non-success terminal status,
\* executeWithStreaming returns success = false with the error text built
\* from that status, onError has been invoked once, no changed files were
\* collected and the result is not one that handleSuccess publishes.
C26_NonSuccessTerminalStatus ==
  \A r \in DOMAIN pc :
    result[r].returned /\ result[r].error = "status"
      => /\ ~result[r].success
         /\ calls[r].onError = 1
         /\ result[r].changes = 0
         /\ ~Publishes(result[r])

\* the updates of the terminal events of a run (those emitted once the
\* transport has ended) and of the completion of a turn
Immediate == {"turn.completed", "flush", "changes", "completed"}

\* C24: two consecutive progress updates of an agent run are at least two
\* seconds apart, unless the later one belongs to a terminal event or to
\* the completion of a turn.
C24_UpdatesTwoSecondsApart ==
  stream.op # "none" =>
    \A i \in 1..(Len(stream.emitted) - 1) :
      \/ stream.emitted[i + 1].kind \in Immediate
      \/ stream.emitted[i + 1].at - stream.emitted[i].at >= Throttle

\* the messages of the agent among what the run read: the assistant
\* messages with a text block (Claude), the agent_message items (Codex)
AgentMessages(s) ==
  SelectSeq(s.read, LAMBDA m :
    IF s.op = "claudeSdk" THEN m.type = "assistant" /\ m.text # 0
    ELSE m.type = "item.completed" /\ m.item = "agent_message")

\* the result field the transport supplied: the result text of a
\* successful Claude result message (0: none, or an empty one)
ResultField(s) ==
  IF s.op = "claudeSdk" /\ s.read # <<>> /\ s.read[Len(s.read)].type = "result"
    THEN s.read[Len(s.read)].text
  ELSE 0

\* C25: the output text of a successful run of an SDK executor is the
\* result field when the transport supplied a non-empty one, and otherwise
\* the last message of the agent alone.
C25_OutputIsResultOrLastMessage ==
  stream.op \in {"claudeSdk", "codexSdk"} /\ stream.step = "returned" =>
    IF ResultField(stream) # 0
      THEN stream.output = << ResultField(stream) >>
      ELSE AgentMessages(stream) # <<>> =>
             stream.output = << AgentMessages(stream)[Len(AgentMessages(stream))].text >>

\* C36: once the timeout timer has fired, executeWithStreaming returns no
\* success and emits no terminal progress of completion, whether the
\* transport then throws an abort error, throws another error or ends.
C36_NoSuccessAfterTimeout ==
  \A r \in DOMAIN pc :
    timedOut[r] => /\ ~(result[r].returned /\ result[r].success)
                   /\ epc[r] # "complete"

\* C37: the workspace of a run is not removed while the agent started for
\* the run is still alive in it.
C37_NoCleanupUnderLiveAgent ==
  \A r \in DOMAIN pc : calls[r].cleanup > 0 => ~procAlive[r]

\* C38: once executeWithStreaming has returned its result, no progress
\* update is streamed and no error is signalled for the run any more.
C38_NoCallbackAfterReturn ==
  [][\A r \in DOMAIN pc :
       result[r].returned =>
         /\ streamed'[r] = streamed[r]
         /\ calls'[r].onError = calls[r].onError]_vars

C35_VerifierGetsRawBody ==
  (call.op = "handleWebhook" /\ call.step = "verified") => call.handed = call.raw

\* C40: the ref the new remote branch is created from and the target
\* branch of the merge request are the branch checked out in the workspace
\* the agent ran in, also after prepare fell back to the default branch.
C40_RefIsCheckedOutBranch ==
  (project.op = "prepare" /\ project.step = "delivered")
    => /\ project.ref = project.branch
       /\ project.target = project.branch

\* C34 as stated: once workspace preparation has started in a run with an
\* accepted instruction, its one progress comment exists; a run without an
\* instruction has none.
C34_ExactlyOneProgressComment ==
  \A r \in DOMAIN pc :
    /\ (instr[r].found /\ calls[r].prepareProject > 0) => comments[r].exists
    /\ ~instr[r].found => ~comments[r].exists

\* C34, amended: a run with an accepted instruction calls
\* createProgressComment exactly once, and the call has returned before
\* prepareProject is called; it creates at most one progress comment, and
\* none when the event has nothing to comment on or the call fails; a run
\* without an instruction never calls it and has no progress comment.
C34_OneCreationBeforePrepare ==
  \A r \in DOMAIN pc :
    /\ calls[r].createProgressComment <= 1
    /\ (instr[r].found /\ pc[r] # "start") => calls[r].createProgressComment = 1
    /\ calls[r].prepareProject > 0 =>
         /\ calls[r].createProgressComment = 1
         /\ pc[r] \notin {"start", "creating"}
    /\ pc[r] \in {"start", "creating"} => calls[r].prepareProject = 0
    /\ comments[r].exists =>
         /\ calls[r].createProgressComment = 1
         /\ HasCommentTarget(event[r])
    /\ ~instr[r].found => /\ calls[r].createProgressComment = 0
                          /\ ~comments[r].exists

\* a run whose progress comment exists while its workspace is prepared
C34_Witness ==
  \E r \in DOMAIN pc :
    /\ instr[r].found /\ comments[r].exists
    /\ calls[r].prepareProject = 1 /\ calls[r].createProgressComment = 1

\* C32: when the update of the progress comment by id has failed, the
\* call ends by returning, never with an error; if the fallback comment
\* could be posted its body is the progress as rendered for the update,
\* with the 'Updated Progress' marker in front, and if not, the failure
\* is logged and no comment is written.
C32_FallbackCommentOnFailedUpdate ==
  (call.op = "updateProgressComment" /\ call.step = "returned"
     /\ call.id /\ call.update = "throws")
    => /\ call.outcome = "returned"
       /\ call.written = NoBody
       /\ IF call.flat = "ok"
            THEN /\ call.fallback =
                      [marker  |-> TRUE,
                       entries |-> Recent(call.log),
                       banner  |-> Banner(call.isComplete, call.isError)]
                 /\ call.text \in {call.log[i].text : i \in 1..Len(call.log)}
                 /\ call.logged = 1
            ELSE /\ call.fallback = NoBody
                 /\ call.logged = 2

\* an update that failed and whose fallback comment was posted, and one
\* whose fallback comment failed too
C32_Witness ==
  /\ call.op = "updateProgressComment" /\ call.step = "returned"
  /\ call.id /\ call.update = "throws" /\ call.flat = "ok"
  /\ call.fallback.marker /\ Len(call.fallback.entries) = 3

\* C33: the progress log never holds two entries with the same text, its
\* entries are in the order in which their texts were first reported, and
\* the body of the progress comment lists at most the 10 entries that
\* were the most recent ones when it was written.
C33_LogDedupedOrderedCapped ==
  LET msgs    == progressMessages
      entries == comments[1].entries
  IN  /\ \A i, j \in 1..Len(msgs) : i # j => msgs[i].text # msgs[j].text
      /\ \A i \in 1..Len(msgs) : msgs[i].text.u = i
      /\ Len(entries) <= 10
      /\ \E last \in 0..Len(msgs) :
           /\ Len(entries) = (IF last <= 10 THEN last ELSE 10)
           /\ \A i \in 1..Len(entries) : entries[i] = msgs[last - Len(entries) + i]

\* a log of more than 10 entries whose comment lists the last 10 of them
C33_Witness ==
  /\ Len(progressMessages) = 11
  /\ Len(comments[1].entries) = 10
  /\ comments[1].entries[1].text.u = 2
  /\ comments[1].entries[10].text.u = 11

\* C39: once no update of the progress comment is in flight any more, the
\* comment shows the latest render: the most recent entries of the log
\* and the banner of the update that was made last.
C39_LatestRenderWins ==
  (inflight.sent > 0 /\ inflight.writes = {})
    => /\ comments[1].entries = Recent(progressMessages)
       /\ comments[1].banner = inflight.banner

====
